---- MODULE Spec2Model ----
(***************************************************************************)
(* Load conflict detection and invoice-week assignment of the freight      *)
(* invoicing application: the date-interval utility, the driver-conflict,  *)
(* duplicate-load-number and legacy date-conflict engines, the conflict    *)
(* refresh orchestrator, the load routes that trigger them and invoice     *)
(* generation.                                                             *)
(*                                                                         *)
(* Time.  A Date is its number of hours since the epoch (the code holds    *)
(* milliseconds; nothing in the modelled code looks below the hour).       *)
(* Load numbers are sequences of one-character strings, so that trim and   *)
(* case folding are computed and not assumed.                              *)
(***************************************************************************)
EXTENDS Integers, Sequences, FiniteSets, TLC

VARIABLES
  loads,      \* the Load collection: load id -> document
  nextId,     \* the next fresh load id (ObjectIds are never reused)
  invoices,   \* the Invoice collection, a sequence of saved invoice records
  last,       \* the last completed request / engine call and what it did
  ops,        \* number of requests started so far
  procs,      \* in-flight requests of the interleaved specification
  args,       \* input of the pure function under check
  result      \* its output

vars == <<loads, nextId, invoices, last, ops, procs, args, result>>

(***************************************************************************)
(* Bounds of the model.                                                    *)
(***************************************************************************)
MaxLoads == 3
MaxOps == 3
MaxDay == 2
MaxWeekDay == 19
MaxNumberLoads == 4
MaxNumberOps == 4
MaxConcLoads == 2
MaxConcOps == 4
MaxInFlight == 2
MaxRefreshLoads == 3
MaxRefreshOps == 4
MaxFailures == 2
MaxGenLoads == 3
MaxGenOps == 4
MaxFailLoads == 2
MaxFailOps == 3
MaxMoveLoads == 3
MaxMoveOps == 4
MaxPairLoads == 3
MaxPairOps == 4
MaxCreateLoads == 3
MaxCreateOps == 3
MaxLackLoads == 2
MaxLackOps == 4
MaxDupLoads == 3
MaxDupOps == 5
MaxRawLoads == 2
MaxRawOps == 3
MaxStaleLoads == 2
MaxStaleOps == 3
MaxLegacyLoads == 2
MaxLegacyOps == 2
MaxConfirmLoads == 3
MaxConfirmOps == 4
MaxRaceLoads == 2
MaxRaceOps == 5
MaxGenerators == 2
MaxBatchDrivers == 11
MaxBatchPairs == 11
MaxCheckLoads == 3
MaxCheckOps == 4
MaxOrderLoads == 3
MaxOrderOps == 4

(***************************************************************************)
(* JavaScript Date, in hours.                                              *)
(***************************************************************************)
HOURS_PER_DAY == 24

\* Date.UTC(y, m, d) / Date.prototype.getUTC*: the proleptic Gregorian calendar.
DaysFromCivil(y, m, d) ==
  LET yy  == IF m <= 2 THEN y - 1 ELSE y
      era == yy \div 400
      yoe == yy - era * 400
      mp  == IF m > 2 THEN m - 3 ELSE m + 9
      doy == (153 * mp + 2) \div 5 + d - 1
      doe == yoe * 365 + yoe \div 4 - yoe \div 100 + doy
  IN  era * 146097 + doe - 719468

\* The calendar date of a day number, step by step: each step is handed the
\* values the steps before it found.
CivilRecord(era, yoe, doy, mp) ==
  [y |-> yoe + era * 400 + (IF mp < 10 THEN 0 ELSE 1),
   m |-> IF mp < 10 THEN mp + 3 ELSE mp - 9,
   d |-> doy - (153 * mp + 2) \div 5 + 1]

CivilOfDayOfYear(era, yoe, doy) == CivilRecord(era, yoe, doy, (5 * doy + 2) \div 153)

CivilOfYearOfEra(era, doe, yoe) ==
  CivilOfDayOfYear(era, yoe, doe - (365 * yoe + yoe \div 4 - yoe \div 100))

CivilOfDayOfEra(era, doe) ==
  CivilOfYearOfEra(era, doe,
                   (doe - doe \div 1460 + doe \div 36524 - doe \div 146096) \div 365)

CivilOfEra(z, era) == CivilOfDayOfEra(era, z - era * 146097)

CivilOfShifted(z) == CivilOfEra(z, z \div 146097)

CivilFromDays(z0) == CivilOfShifted(z0 + 719468)

getUTCFullYear(t) == CivilFromDays(t \div HOURS_PER_DAY).y
getUTCMonth(t)    == CivilFromDays(t \div HOURS_PER_DAY).m
getUTCDate(t)     == CivilFromDays(t \div HOURS_PER_DAY).d
\* Sun = 0 ... Sat = 6; 1970-01-01 was a Thursday.
getUTCDay(t)      == ((t \div HOURS_PER_DAY) + 4) % 7
DateUTC(y, m, d)  == DaysFromCivil(y, m, d) * HOURS_PER_DAY

\* toISOString().slice(0, 10): the digits of YYYY-MM-DD, read as one number.
IsoDate(t) == getUTCFullYear(t) * 10000 + getUTCMonth(t) * 100 + getUTCDate(t)

(***************************************************************************)
(* 4.1 Date-interval utility (driverConflictService.js).                   *)
(***************************************************************************)
toUtcDateOnly(t) == DateUTC(getUTCFullYear(t), getUTCMonth(t), getUTCDate(t))

\* The overlap test on the timestamps as they are, time of day included.
intervalsOverlapWithTime(pickupA, deliveryA, pickupB, deliveryB) ==
  pickupA < deliveryB /\ pickupB < deliveryA

intervalsOverlapDateOnly(pickupA, deliveryA, pickupB, deliveryB) ==
  LET aStart == toUtcDateOnly(pickupA)
      aEnd   == toUtcDateOnly(deliveryA)
      bStart == toUtcDateOnly(pickupB)
      bEnd   == toUtcDateOnly(deliveryB)
  IN  aStart < bEnd /\ bStart < aEnd

\* loadConflictService.js: the legacy date-conflict test, date-only as well.
datesConflict(pickup1, delivery1, pickup2, delivery2) ==
  LET p1 == toUtcDateOnly(pickup1)
      d1 == toUtcDateOnly(delivery1)
      p2 == toUtcDateOnly(pickup2)
      d2 == toUtcDateOnly(delivery2)
  IN  p1 < d2 /\ p2 < d1

(***************************************************************************)
(* 4.4 Invoice-week assignment (invoiceWeekService.js).                    *)
(***************************************************************************)
\* JavaScript values a date argument can be: a Date (or a timestamp that parses),
\* null, undefined, the empty string, or text that does not parse.
JsDate(t)    == [tag |-> "date", t |-> t]
JsNull       == [tag |-> "null"]
JsUndefined  == [tag |-> "undefined"]
JsEmpty      == [tag |-> "empty"]
JsGarbage    == [tag |-> "garbage"]
NullResult   == [tag |-> "null"]

\* new Date(v): new Date(null) is the epoch; undefined, '' and unparseable text
\* give an Invalid Date, whose getTime() is NaN.
NewDate(v) ==
  IF v.tag = "date" THEN [nan |-> FALSE, t |-> v.t]
  ELSE IF v.tag = "null" THEN [nan |-> FALSE, t |-> 0]
  ELSE [nan |-> TRUE, t |-> 0]

toUtcMidnight(dateValue) ==
  LET d == NewDate(dateValue)
  IN  IF d.nan THEN NullResult
      ELSE JsDate(DateUTC(getUTCFullYear(d.t), getUTCMonth(d.t), getUTCDate(d.t)))

datesHaveSameUtcYmd(a, b) ==
  /\ getUTCFullYear(a) = getUTCFullYear(b)
  /\ getUTCMonth(a) = getUTCMonth(b)
  /\ getUTCDate(a) = getUTCDate(b)

\* The pickup-week rule the service replaced: the Monday of the pickup week,
\* moved on while the delivery lies after the following Monday.
SpillOver(invoiceMonday, deliveryMidnight) ==
  LET week == 7 * HOURS_PER_DAY
      over == deliveryMidnight - (invoiceMonday + week)
  IN  IF over > 0 THEN invoiceMonday + ((over + week - 1) \div week) * week
      ELSE invoiceMonday

computeInvoiceWeekFieldsPickupWeek(pickupDate, deliveryDate) ==
  LET pickupMidnight   == toUtcMidnight(pickupDate)
      deliveryMidnight == toUtcMidnight(deliveryDate)
  IN  IF pickupMidnight = NullResult \/ deliveryMidnight = NullResult THEN NullResult
      ELSE LET dow == getUTCDay(pickupMidnight.t)
               daysSinceMonday == IF dow = 0 THEN 6 ELSE dow - 1
               start == pickupMidnight.t - daysSinceMonday * HOURS_PER_DAY
               invoiceMonday == SpillOver(start, deliveryMidnight.t)
           IN  [tag |-> "fields", invoiceMonday |-> invoiceMonday,
                invoiceWeekId |-> IsoDate(invoiceMonday)]

computeInvoiceWeekFields(pickupDate, deliveryDate) ==
  LET pickupMidnight   == toUtcMidnight(pickupDate)
      deliveryMidnight == toUtcMidnight(deliveryDate)
  IN  IF pickupMidnight = NullResult \/ deliveryMidnight = NullResult THEN NullResult
      ELSE LET deliveryDow     == getUTCDay(deliveryMidnight.t)
               daysSinceMonday == IF deliveryDow = 0 THEN 6 ELSE deliveryDow - 1
               monday0 == deliveryMidnight.t - daysSinceMonday * HOURS_PER_DAY
               invoiceMonday ==
                 IF datesHaveSameUtcYmd(pickupMidnight.t, monday0)
                 THEN monday0 + 7 * HOURS_PER_DAY
                 ELSE monday0
           IN  [tag |-> "fields", invoiceMonday |-> invoiceMonday,
                invoiceWeekId |-> IsoDate(invoiceMonday)]

(***************************************************************************)
(* Load numbers: text as a sequence of characters.                         *)
(***************************************************************************)
Space == " "

RECURSIVE trimStart(_)
trimStart(s) ==
  IF s = <<>> THEN s
  ELSE IF Head(s) = Space THEN trimStart(Tail(s)) ELSE s

RECURSIVE trimEnd(_)
trimEnd(s) ==
  IF s = <<>> THEN s
  ELSE IF s[Len(s)] = Space THEN trimEnd(SubSeq(s, 1, Len(s) - 1)) ELSE s

\* String.prototype.trim
trim(s) == trimEnd(trimStart(s))

\* String.prototype.toLowerCase, on the letters load numbers are drawn from.
lowerChar(c) == IF c = "A" THEN "a" ELSE IF c = "B" THEN "b" ELSE c
toLowerCase(s) == [i \in 1..Len(s) |-> lowerChar(s[i])]

\* duplicateLoadConflictService: normalizeLoadNumber
normalizeLoadNumber(loadNumber) == trim(loadNumber)

\* conflictRefreshService: normalizeLoadNumberKey
normalizeLoadNumberKey(loadNumber) == toLowerCase(trim(loadNumber))

\* { $regex: new RegExp(`^${escapeRegex(normalized)}$`, 'i') }: the whole stored
\* text equals the pattern, letter case ignored.  The stored text is not trimmed.
regexMatches(normalized, text) ==
  /\ Len(text) = Len(normalized)
  /\ \A i \in 1..Len(text) : lowerChar(text[i]) = lowerChar(normalized[i])

(***************************************************************************)
(* The Load collection.  Absent references are NoDriver / NoCarrier.       *)
(***************************************************************************)
NoDriver == 0
NoCarrier == 0

\* A date that is missing: !pickupDate is true.
NoDate == -1

NewLoad(body, fields) ==
  [driver_id |-> body.driver_id,
   carrier_id |-> body.carrier_id,
   load_number |-> body.load_number,
   pickup_date |-> body.pickup_date,
   delivery_date |-> body.delivery_date,
   invoice_monday |-> fields.invoiceMonday,
   invoice_week_id |-> fields.invoiceWeekId,
   cancelled |-> body.cancelled,
   confirmed |-> body.confirmed,
   invoiced |-> FALSE,
   date_conflict_ids |-> {},
   driver_conflict |-> FALSE,
   driver_conflict_ids |-> {},
   duplicate_conflict |-> FALSE,
   duplicate_conflict_ids |-> {}]

\* Load.updateOne({_id: id}, {$set: ...}): nothing happens when no document matches.
SetDriverFlags(L, id, ids) ==
  IF id \in DOMAIN L
  THEN [L EXCEPT ![id].driver_conflict_ids = ids, ![id].driver_conflict = (ids # {})]
  ELSE L

SetDuplicateFlags(L, id, ids) ==
  IF id \in DOMAIN L
  THEN [L EXCEPT ![id].duplicate_conflict_ids = ids, ![id].duplicate_conflict = (ids # {})]
  ELSE L

(***************************************************************************)
(* 4.2 Driver conflict engine (driverConflictService.js).                  *)
(***************************************************************************)
\* The find with cancelled loads left in.
findDriverConflictingLoadsWithCancelled(L, loadId, pickupDate, deliveryDate, driverId) ==
  IF driverId = NoDriver \/ pickupDate = NoDate \/ deliveryDate = NoDate THEN {}
  ELSE {i \in DOMAIN L :
          /\ i # loadId
          /\ L[i].driver_id = driverId
          /\ intervalsOverlapDateOnly(pickupDate, deliveryDate,
                                      L[i].pickup_date, L[i].delivery_date)}

findDriverConflictingLoads(L, loadId, pickupDate, deliveryDate, driverId) ==
  IF driverId = NoDriver \/ pickupDate = NoDate \/ deliveryDate = NoDate THEN {}
  ELSE {i \in DOMAIN L :
          /\ i # loadId
          /\ ~L[i].cancelled
          /\ L[i].driver_id = driverId
          /\ intervalsOverlapDateOnly(pickupDate, deliveryDate,
                                      L[i].pickup_date, L[i].delivery_date)}

\* Load.find({cancelled: false, driver_id: driverId})
DriverGroup(L, driverId) ==
  {i \in DOMAIN L : ~L[i].cancelled /\ L[i].driver_id = driverId}

\* The map with only the first load of each overlapping pair given the other.
DriverConflictMapOneSided(L, driverId) ==
  LET group == DriverGroup(L, driverId)
      hit(a, b) == intervalsOverlapDateOnly(L[a].pickup_date, L[a].delivery_date,
                                            L[b].pickup_date, L[b].delivery_date)
  IN  [i \in group |-> {j \in group : i < j /\ hit(i, j)}]

\* The map with an empty entry for every load outside the group as well.
DriverConflictMapClearingOthers(L, driverId) ==
  LET group == DriverGroup(L, driverId)
      hit(a, b) == intervalsOverlapDateOnly(L[a].pickup_date, L[a].delivery_date,
                                            L[b].pickup_date, L[b].delivery_date)
  IN  [i \in DOMAIN L |->
         IF i \in group THEN {j \in group : j # i /\ hit(i, j)} ELSE {}]

\* The conflictMap of recalculateDriverConflictsForDriver: each pair i < j of the
\* loads found is tested once and, when it overlaps, pushed on both sides.
DriverConflictMap(L, driverId) ==
  LET group == DriverGroup(L, driverId)
      hit(a, b) == intervalsOverlapDateOnly(L[a].pickup_date, L[a].delivery_date,
                                            L[b].pickup_date, L[b].delivery_date)
  IN  [i \in group |->
         {j \in group : j # i /\ hit(IF i < j THEN i ELSE j, IF i < j THEN j ELSE i)}]

\* Promise.all of the updateOne calls, one per entry of the map.
ApplyDriverConflictMap(L, cmap) ==
  [i \in DOMAIN L |->
     IF i \in DOMAIN cmap
     THEN [L[i] EXCEPT !.driver_conflict_ids = cmap[i], !.driver_conflict = (cmap[i] # {})]
     ELSE L[i]]

recalculateDriverConflictsForDriver(L, driverId) ==
  IF driverId = NoDriver THEN L
  ELSE ApplyDriverConflictMap(L, DriverConflictMap(L, driverId))

checkAndUpdateDriverConflictsForLoad(L, loadId, pickupDate, deliveryDate, driverId) ==
  IF driverId = NoDriver \/ pickupDate = NoDate \/ deliveryDate = NoDate
  THEN SetDriverFlags(L, loadId, {})
  ELSE SetDriverFlags(L, loadId,
         findDriverConflictingLoads(L, loadId, pickupDate, deliveryDate, driverId))

\* What checkAndUpdateDriverConflictsForLoad returns: [] or conflictIds.
checkAndUpdateDriverConflictsForLoadReturns(L, loadId, pickupDate, deliveryDate, driverId) ==
  IF driverId = NoDriver \/ pickupDate = NoDate \/ deliveryDate = NoDate
  THEN {}
  ELSE findDriverConflictingLoads(L, loadId, pickupDate, deliveryDate, driverId)

(***************************************************************************)
(* 4.3 Duplicate load-number engine (duplicateLoadConflictService).        *)
(***************************************************************************)
\* The find without the carrier in its query.
getDuplicateGroupLoadsAnyCarrier(L, carrierId, loadNumber) ==
  IF carrierId = NoCarrier \/ normalizeLoadNumber(loadNumber) = <<>> THEN {}
  ELSE {i \in DOMAIN L :
          ~L[i].cancelled /\ regexMatches(normalizeLoadNumber(loadNumber), L[i].load_number)}

getDuplicateGroupLoads(L, carrierId, loadNumber) ==
  IF carrierId = NoCarrier THEN {}
  ELSE LET normalized == normalizeLoadNumber(loadNumber)
       IN  IF normalized = <<>> THEN {}
           ELSE {i \in DOMAIN L :
                   /\ ~L[i].cancelled
                   /\ L[i].carrier_id = carrierId
                   /\ regexMatches(normalized, L[i].load_number)}

recalculateDuplicateConflictsForCarrierLoadNumber(L, carrierId, loadNumber) ==
  LET group == getDuplicateGroupLoads(L, carrierId, loadNumber)
  IN  [i \in DOMAIN L |->
         IF i \in group
         THEN [L[i] EXCEPT !.duplicate_conflict_ids = group \ {i},
                           !.duplicate_conflict = (group \ {i} # {})]
         ELSE L[i]]

clearDuplicateConflictsForLoad(L, loadId) == SetDuplicateFlags(L, loadId, {})

checkAndUpdateDuplicateConflictsForLoad(L, loadId, carrierId, loadNumber) ==
  IF carrierId = NoCarrier \/ normalizeLoadNumber(loadNumber) = <<>>
  THEN clearDuplicateConflictsForLoad(L, loadId)
  ELSE SetDuplicateFlags(L, loadId,
         getDuplicateGroupLoads(L, carrierId, loadNumber) \ {loadId})

(***************************************************************************)
(* Legacy date-conflict engine (loadConflictService.js).                   *)
(***************************************************************************)
\* The query without its _id: {$ne: loadId}.
findConflictingLoadsWithSelf(L, loadId, pickupDate, deliveryDate, driverId) ==
  {i \in DOMAIN L :
     /\ ~L[i].cancelled
     /\ (driverId # NoDriver => L[i].driver_id = driverId)
     /\ datesConflict(pickupDate, deliveryDate, L[i].pickup_date, L[i].delivery_date)}

findConflictingLoads(L, loadId, pickupDate, deliveryDate, driverId) ==
  {i \in DOMAIN L :
     /\ i # loadId
     /\ ~L[i].cancelled
     /\ (driverId # NoDriver => L[i].driver_id = driverId)
     /\ datesConflict(pickupDate, deliveryDate, L[i].pickup_date, L[i].delivery_date)}

\* updateLoadConflicts on the load, then the push of loadId on every conflicting
\* load that does not list it yet.
checkAndUpdateConflicts(L, loadId, pickupDate, deliveryDate, driverId) ==
  LET conflictIds == findConflictingLoads(L, loadId, pickupDate, deliveryDate, driverId)
  IN  [i \in DOMAIN L |->
         IF i = loadId THEN [L[i] EXCEPT !.date_conflict_ids = conflictIds]
         ELSE IF i \in conflictIds
              THEN [L[i] EXCEPT !.date_conflict_ids = @ \cup {loadId}]
              ELSE L[i]]

\* Load.updateMany({date_conflict_ids: loadId}, {$pull: {date_conflict_ids: loadId}})
removeFromConflictLists(L, loadId) ==
  [i \in DOMAIN L |-> [L[i] EXCEPT !.date_conflict_ids = @ \ {loadId}]]

(***************************************************************************)
(* 4.5 Conflict refresh orchestrator (conflictRefreshService).             *)
(***************************************************************************)
RECURSIVE RecalculateDrivers(_, _)
RecalculateDrivers(L, driverIds) ==
  IF driverIds = {} THEN L
  ELSE LET d == CHOOSE x \in driverIds : TRUE
       IN  RecalculateDrivers(recalculateDriverConflictsForDriver(L, d), driverIds \ {d})

RECURSIVE RecalculatePairs(_, _)
RecalculatePairs(L, pairs) ==
  IF pairs = {} THEN L
  ELSE LET p == CHOOSE x \in pairs : TRUE
       IN  RecalculatePairs(
             recalculateDuplicateConflictsForCarrierLoadNumber(L, p.carrierId, p.loadNumber),
             pairs \ {p})

\* A refresh that recomputes no driver.
RefreshDriverIdsNone(L, batch) == {}

\* The loop over the seed documents: which drivers and pairs to recompute, which
\* loads to clear.  A pair keeps the trimmed number of the first load with its key.
RefreshDriverIds(L, batch) == {L[i].driver_id : i \in {j \in batch : L[j].driver_id # NoDriver}}

RefreshClearDriverIds(L, batch) == {i \in batch : L[i].driver_id = NoDriver}

HasPairKey(L, i) ==
  L[i].carrier_id # NoCarrier /\ normalizeLoadNumberKey(L[i].load_number) # <<>>

PairKey(L, i) == <<L[i].carrier_id, normalizeLoadNumberKey(L[i].load_number)>>

RefreshDuplicatePairs(L, batch) ==
  {[carrierId |-> L[i].carrier_id, loadNumber |-> trim(L[i].load_number)] :
     i \in {j \in batch :
              /\ HasPairKey(L, j)
              /\ \A k \in batch : (k < j /\ HasPairKey(L, k)) => PairKey(L, k) # PairKey(L, j)}}

RefreshClearDuplicateIds(L, batch) == {i \in batch : ~HasPairKey(L, i)}

\* Load.updateMany({_id: {$in: clearDriverIds}}, {driver_conflict: false, ...})
ClearDriverFlags(L, ids) ==
  [i \in DOMAIN L |->
     IF i \in ids THEN [L[i] EXCEPT !.driver_conflict = FALSE, !.driver_conflict_ids = {}]
     ELSE L[i]]

\* Load.updateMany({_id: {$in: clearDuplicateIds}}, {duplicate_conflict: false, ...})
ClearDuplicateFlags(L, ids) ==
  [i \in DOMAIN L |->
     IF i \in ids
     THEN [L[i] EXCEPT !.duplicate_conflict = FALSE, !.duplicate_conflict_ids = {}]
     ELSE L[i]]

\* The sets are those of the seed documents; the writes follow one another.
refreshSteps(L, clearDriverIds, clearDuplicateIds, driverIds, duplicatePairs) ==
  RecalculatePairs(
    RecalculateDrivers(
      ClearDuplicateFlags(ClearDriverFlags(L, clearDriverIds), clearDuplicateIds),
      driverIds),
    duplicatePairs)

refreshConflictsForLoads(L, batch) ==
  refreshSteps(L, RefreshClearDriverIds(L, batch), RefreshClearDuplicateIds(L, batch),
               RefreshDriverIds(L, batch), RefreshDuplicatePairs(L, batch))

(***************************************************************************)
(* The requests the specifications draw from.                              *)
(***************************************************************************)
Drivers == {1, 2}
Carriers == {1, 2}
A100   == <<"A", "1", "0", "0">>
a100sp == <<"a", "1", "0", "0", " ">>
LoadNumbers == {A100, a100sp}

\* Monday 2024-03-11 .. Wednesday 2024-03-13.  The first interval ends, at 15:00,
\* on the day the second begins at 00:00; the third overlaps both.
Mon00 == DateUTC(2024, 3, 11)
Tue00 == DateUTC(2024, 3, 12)
Tue15 == DateUTC(2024, 3, 12) + 15
Wed00 == DateUTC(2024, 3, 13)
Intervals == {<<Mon00, Tue15>>, <<Tue00, Wed00>>, <<Mon00, Wed00>>}

\* computeInvoiceWeekFields(pickup_date, delivery_date) of the intervals requests
\* carry, evaluated once per interval.
InvoiceWeekTable ==
  [iv \in Intervals |-> computeInvoiceWeekFields(JsDate(iv[1]), JsDate(iv[2]))]

LoadBody(driverId, carrierId, loadNumber, interval, cancelled, confirmed) ==
  [driver_id |-> driverId, carrier_id |-> carrierId, load_number |-> loadNumber,
   pickup_date |-> interval[1], delivery_date |-> interval[2],
   cancelled |-> cancelled, confirmed |-> confirmed]

\* CreateLoadPage: any driver or none, a carrier or none, a number, the dates and
\* the cancelled checkbox.
PostBodies ==
  {LoadBody(d, c, A100, iv, x, FALSE) :
     d \in Drivers \cup {NoDriver}, c \in {1, NoCarrier}, iv \in Intervals, x \in BOOLEAN}

\* LoadItem's save: the number and the dates; the driver and the carrier of the
\* document stay (they have their own routes).
PutBodies(doc) ==
  {LoadBody(doc.driver_id, doc.carrier_id, n, iv, doc.cancelled, doc.confirmed) :
     n \in LoadNumbers, iv \in Intervals}

ListQueries == [driver_id : Drivers \cup {NoDriver}, cancelled : {"any", "false"}]

(***************************************************************************)
(* The load routes, each request run to completion (no other request in    *)
(* between, no store failure).  A route is its steps in the order of the   *)
(* handler, each step handed the store the step before it left.            *)
(***************************************************************************)
Pair(carrierId, loadNumber) == [carrierId |-> carrierId, loadNumber |-> loadNumber]

HasConflicts(doc) ==
  \/ doc.driver_conflict_ids # {}
  \/ doc.duplicate_conflict_ids # {}
  \/ doc.date_conflict_ids # {}

Done(op, id, drivers, pairs, batch, active) ==
  [op |-> op, id |-> id, drivers |-> drivers, pairs |-> pairs, batch |-> batch,
   active |-> active]

\* if (load.carrier_id && load.load_number)
HasPair(doc) == doc.carrier_id # NoCarrier /\ doc.load_number # <<>>

\* The drivers and the pairs a request hands to the recompute engines.
DriversOf(doc) == IF doc.driver_id # NoDriver THEN {doc.driver_id} ELSE {}
PairsOf(doc) == IF HasPair(doc) THEN {Pair(doc.carrier_id, doc.load_number)} ELSE {}

\* checkAndUpdateConflicts(load._id, load.pickup_date, load.delivery_date, load.driver_id)
DateConflictStep(L, id) ==
  checkAndUpdateConflicts(L, id, L[id].pickup_date, L[id].delivery_date, L[id].driver_id)

\* if (load.driver_id) recalculateDriverConflictsForDriver(load.driver_id)
\* else checkAndUpdateDriverConflictsForLoad(load._id, ..., null)
DriverConflictStep(L, id) ==
  IF L[id].driver_id # NoDriver
  THEN recalculateDriverConflictsForDriver(L, L[id].driver_id)
  ELSE checkAndUpdateDriverConflictsForLoad(L, id, L[id].pickup_date, L[id].delivery_date,
                                            NoDriver)

\* if (load.carrier_id && load.load_number) recalculateDuplicateConflicts...(...)
\* else checkAndUpdateDuplicateConflictsForLoad(load._id, ...)
DuplicateConflictStep(L, id) ==
  IF HasPair(L[id])
  THEN recalculateDuplicateConflictsForCarrierLoadNumber(L, L[id].carrier_id,
                                                         L[id].load_number)
  ELSE checkAndUpdateDuplicateConflictsForLoad(L, id, L[id].carrier_id, L[id].load_number)

\* The old driver left as it was.
OldDriverStepSkipped(L, id, old) == L

\* if (oldDriverStr && oldDriverStr !== newDriverStr) recalculate...(oldDriverId)
OldDriverStep(L, id, old) ==
  IF old.driver_id # NoDriver /\ old.driver_id # L[id].driver_id
  THEN recalculateDriverConflictsForDriver(L, old.driver_id)
  ELSE L

\* if (oldCarrierId && oldLoadNumber) recalculateDuplicateConflicts...(old...)
OldPairStep(L, old) ==
  IF HasPair(old)
  THEN recalculateDuplicateConflictsForCarrierLoadNumber(L, old.carrier_id, old.load_number)
  ELSE L

\* router.post('/'): new Load(loadData), save, then the three engines.
InsertLoad(L, id, body) ==
  [i \in DOMAIN L \cup {id} |->
     IF i = id
     THEN NewLoad(body, InvoiceWeekTable[<<body.pickup_date, body.delivery_date>>])
     ELSE L[i]]

postLoad(L, id, body) ==
  [loads |-> DuplicateConflictStep(
               DriverConflictStep(DateConflictStep(InsertLoad(L, id, body), id), id), id),
   last |-> Done("create", id, DriversOf(body), PairsOf(body), {}, FALSE)]

PostLoad(body) ==
  /\ LET r == postLoad(loads, nextId, body)
     IN  loads' = r.loads /\ last' = r.last
  /\ nextId' = nextId + 1
  /\ ops' = ops + 1
  /\ UNCHANGED <<invoices, procs, args, result>>

\* router.put('/:id'): Object.assign(load, req.body), the invoice week, save, then
\* the engines for what changed.
AssignBody(old, body, fields) ==
  [old EXCEPT !.driver_id = body.driver_id,
              !.carrier_id = body.carrier_id,
              !.load_number = body.load_number,
              !.pickup_date = body.pickup_date,
              !.delivery_date = body.delivery_date,
              !.invoice_monday = fields.invoiceMonday,
              !.invoice_week_id = fields.invoiceWeekId]

DatesOrDriverChanged(old, doc) ==
  \/ doc.pickup_date # old.pickup_date
  \/ doc.delivery_date # old.delivery_date
  \/ doc.driver_id # old.driver_id

PairChanged(old, doc) ==
  doc.carrier_id # old.carrier_id \/ doc.load_number # old.load_number

putDrivers(L, id, old) ==
  IF DatesOrDriverChanged(old, L[id])
  THEN DriverConflictStep(OldDriverStep(DateConflictStep(L, id), id, old), id)
  ELSE L

putDuplicates(L, id, old) ==
  IF PairChanged(old, L[id])
  THEN DuplicateConflictStep(OldPairStep(L, old), id)
  ELSE L

putSaved(L, id, old, doc) ==
  [loads |-> putDuplicates(putDrivers([L EXCEPT ![id] = doc], id, old), id, old),
   last |-> Done("put", id,
                  IF DatesOrDriverChanged(old, doc)
                  THEN DriversOf(old) \cup DriversOf(doc) ELSE {},
                  IF PairChanged(old, doc) THEN PairsOf(old) \cup PairsOf(doc) ELSE {},
                  {}, HasConflicts(old))]

putLoad(L, id, body) ==
  putSaved(L, id, L[id],
           AssignBody(L[id], body,
                      InvoiceWeekTable[<<body.pickup_date, body.delivery_date>>]))

PutLoad(id, body) ==
  /\ id \in DOMAIN loads
  /\ LET r == putLoad(loads, id, body)
     IN  loads' = r.loads /\ last' = r.last
  /\ ops' = ops + 1
  /\ UNCHANGED <<nextId, invoices, procs, args, result>>

\* router.patch('/:id'): driver assignment only.
patchDriverSaved(L, id, old) ==
  IF L[id].driver_id # old.driver_id
  THEN DriverConflictStep(OldDriverStep(DateConflictStep(L, id), id, old), id)
  ELSE L

patchDriver(L, id, newDriverId) ==
  [loads |-> patchDriverSaved([L EXCEPT ![id].driver_id = newDriverId], id, L[id]),
   last |-> Done("patchDriver", id,
                  IF newDriverId # L[id].driver_id
                  THEN DriversOf(L[id]) \cup {d \in {newDriverId} : d # NoDriver} ELSE {},
                  {}, {}, HasConflicts(L[id]))]

PatchDriver(id, newDriverId) ==
  /\ id \in DOMAIN loads
  /\ LET r == patchDriver(loads, id, newDriverId)
     IN  loads' = r.loads /\ last' = r.last
  /\ ops' = ops + 1
  /\ UNCHANGED <<nextId, invoices, procs, args, result>>

\* router.patch('/:id/carrier'): carrier assignment; carrier_id is required.
patchCarrier(L, id, carrierId) ==
  [loads |-> DuplicateConflictStep(
               OldPairStep([L EXCEPT ![id].carrier_id = carrierId], L[id]), id),
   last |-> Done("patchCarrier", id, {},
                  PairsOf(L[id]) \cup PairsOf([L[id] EXCEPT !.carrier_id = carrierId]),
                  {}, HasConflicts(L[id]))]

PatchCarrier(id, carrierId) ==
  /\ id \in DOMAIN loads
  /\ carrierId # NoCarrier
  /\ LET r == patchCarrier(loads, id, carrierId)
     IN  loads' = r.loads /\ last' = r.last
  /\ ops' = ops + 1
  /\ UNCHANGED <<nextId, invoices, procs, args, result>>

\* router.patch('/:id/cancel') with cancelled = true: the pull from the other
\* loads' date lists, the load's own date list, the recomputes for the driver and
\* the pair it had, and the clearing of its own warnings.
cancelPull(L, id) ==
  [removeFromConflictLists(L, id) EXCEPT ![id].date_conflict_ids = {}]

cancelDriver(L, id) ==
  IF L[id].driver_id # NoDriver
  THEN recalculateDriverConflictsForDriver(L, L[id].driver_id)
  ELSE L

cancelClear(L, id) ==
  checkAndUpdateDuplicateConflictsForLoad(
    checkAndUpdateDriverConflictsForLoad(L, id, L[id].pickup_date, L[id].delivery_date,
                                         NoDriver),
    id, NoCarrier, <<>>)

cancelLoad(L, id) ==
  [loads |-> cancelClear(
               OldPairStep(
                 cancelDriver(cancelPull([L EXCEPT ![id].cancelled = TRUE], id), id),
                 L[id]),
               id),
   last |-> Done("cancel", id, DriversOf(L[id]), PairsOf(L[id]), {}, HasConflicts(L[id]))]

CancelLoad(id) ==
  /\ id \in DOMAIN loads
  /\ LET r == cancelLoad(loads, id)
     IN  loads' = r.loads /\ last' = r.last
  /\ ops' = ops + 1
  /\ UNCHANGED <<nextId, invoices, procs, args, result>>

\* router.patch('/:id/cancel') with cancelled = false.
uncancelLoad(L, id) ==
  [loads |-> OldPairStep(
               cancelDriver(DateConflictStep([L EXCEPT ![id].cancelled = FALSE], id), id),
               L[id]),
   last |-> Done("uncancel", id, DriversOf(L[id]), PairsOf(L[id]), {},
                  HasConflicts(L[id]))]

UncancelLoad(id) ==
  /\ id \in DOMAIN loads
  /\ LET r == uncancelLoad(loads, id)
     IN  loads' = r.loads /\ last' = r.last
  /\ ops' = ops + 1
  /\ UNCHANGED <<nextId, invoices, procs, args, result>>

\* router.delete('/:id')
findByIdAndDelete(L, id) == [i \in DOMAIN L \ {id} |-> L[i]]

deleteLoad(L, id) ==
  [loads |-> findByIdAndDelete(removeFromConflictLists(L, id), id),
   last |-> Done("delete", id, {}, {}, {}, HasConflicts(L[id]))]

DeleteLoad(id) ==
  /\ id \in DOMAIN loads
  /\ LET r == deleteLoad(loads, id)
     IN  loads' = r.loads /\ last' = r.last
  /\ ops' = ops + 1
  /\ UNCHANGED <<nextId, invoices, procs, args, result>>

\* router.get('/'): the seed query, then the refresh over what it found.  A
\* filter that is not given does not restrict the query.
ListQuery(L, q) ==
  {i \in DOMAIN L :
     /\ (q.driver_id # NoDriver => L[i].driver_id = q.driver_id)
     /\ (q.cancelled = "true" => L[i].cancelled)
     /\ (q.cancelled = "false" => ~L[i].cancelled)
     /\ ~L[i].invoiced}

refreshed(L, batch) ==
  [loads |-> refreshConflictsForLoads(L, batch),
   last |-> Done("list", 0, RefreshDriverIds(L, batch),
                  RefreshDuplicatePairs(L, batch), batch, FALSE)]

getLoads(L, q) == refreshed(L, ListQuery(L, q))

GetLoads(q) ==
  /\ LET r == getLoads(loads, q)
     IN  loads' = r.loads /\ last' = r.last
  /\ ops' = ops + 1
  /\ UNCHANGED <<nextId, invoices, procs, args, result>>

(***************************************************************************)
(* Variables a specification does not use keep these values.               *)
(***************************************************************************)
NoCall == [done |-> FALSE]

IdleStore ==
  /\ loads = <<>>
  /\ nextId = 1
  /\ invoices = <<>>
  /\ last = [op |-> "none"]
  /\ ops = 0
  /\ procs = <<>>

IdleCall == args = [fn |-> "none"] /\ result = NoCall

storeVars == <<loads, nextId, invoices, last, ops, procs>>

(***************************************************************************)
(* The date-interval utility on its own: every choice of four timestamps.  *)
(***************************************************************************)
Day0 == DaysFromCivil(2024, 3, 11)
TimesOfDay == {0, 9, 23}
OverlapTimes == {(Day0 + d) * HOURS_PER_DAY + h : d \in 0..MaxDay, h \in TimesOfDay}

InitOverlap ==
  /\ IdleStore
  /\ args \in [fn : {"intervalsOverlapDateOnly"}, pickupA : OverlapTimes,
               deliveryA : OverlapTimes, pickupB : OverlapTimes, deliveryB : OverlapTimes]
  /\ result = NoCall

CallOverlap ==
  /\ ~result.done
  /\ result' = [done |-> TRUE,
                value |-> intervalsOverlapDateOnly(args.pickupA, args.deliveryA,
                                                   args.pickupB, args.deliveryB)]
  /\ UNCHANGED <<args, storeVars>>

SpecOverlap == InitOverlap /\ [][CallOverlap]_vars

\* The UTC calendar day of a timestamp, as a day number.
UtcDay(t) == t \div HOURS_PER_DAY

\* C3: intervalsOverlapDateOnly looks only at the UTC calendar dates of its inputs
\* and is true iff date(pickupA) < date(deliveryB) and date(pickupB) < date(deliveryA);
\* a delivery and a pickup on the same date are never an overlap.
C3_OverlapIsDateOnly ==
  result.done =>
    /\ result.value = (/\ UtcDay(args.pickupA) < UtcDay(args.deliveryB)
                       /\ UtcDay(args.pickupB) < UtcDay(args.deliveryA))
    /\ UtcDay(args.deliveryA) = UtcDay(args.pickupB) => ~result.value

\* A delivery at 23:00 and the next pickup at 09:00 of the same day, intervals
\* that do overlap as timestamps, have been tested.
C3_Witness ==
  /\ result.done
  /\ UtcDay(args.deliveryA) = UtcDay(args.pickupB)
  /\ args.pickupB < args.deliveryA
  /\ args.pickupA < args.deliveryB
  /\ ~result.value

(***************************************************************************)
(* The invoice-week function on its own.                                   *)
(***************************************************************************)
WeekDay0 == DaysFromCivil(2024, 2, 26)
WeekTimesOfDay == {0, 23}
WeekTimes == {(WeekDay0 + d) * HOURS_PER_DAY + h : d \in 0..MaxWeekDay, h \in WeekTimesOfDay}
WeekInputs == {JsDate(t) : t \in WeekTimes} \cup {JsNull, JsUndefined, JsEmpty, JsGarbage}

InitWeek ==
  /\ IdleStore
  /\ args \in [fn : {"computeInvoiceWeekFields"}, pickup : WeekInputs, delivery : WeekInputs]
  /\ result = NoCall

CallWeek ==
  /\ ~result.done
  /\ result' = [done |-> TRUE, value |-> computeInvoiceWeekFields(args.pickup, args.delivery)]
  /\ UNCHANGED <<args, storeVars>>

SpecWeek == InitWeek /\ [][CallWeek]_vars

\* The Monday on or before day number d (day 4, 1970-01-05, was a Monday).
MondayOnOrBefore(d) == d - ((d + 3) % 7)

\* The timestamp of the date written YYYYMMDD.
DateOfIso(id) == DaysFromCivil(id \div 10000, (id \div 100) % 100, id % 100) * HOURS_PER_DAY

\* C7: for valid dates invoiceMonday is the UTC-midnight Monday on or before the
\* delivery date, moved 7 days on exactly when the pickup's UTC date is that
\* Monday; invoiceWeekId is the date of invoiceMonday; pickup 2024-03-11 with
\* delivery 2024-03-15 gives 2024-03-18.
C7_InvoiceWeekRule ==
  (result.done /\ args.pickup.tag = "date" /\ args.delivery.tag = "date") =>
    LET mon == MondayOnOrBefore(UtcDay(args.delivery.t))
        exp == IF UtcDay(args.pickup.t) = mon THEN mon + 7 ELSE mon
    IN  /\ result.value.tag = "fields"
        /\ result.value.invoiceMonday = exp * HOURS_PER_DAY
        /\ DateOfIso(result.value.invoiceWeekId) = result.value.invoiceMonday
        /\ (UtcDay(args.pickup.t) = DaysFromCivil(2024, 3, 11)
              /\ UtcDay(args.delivery.t) = DaysFromCivil(2024, 3, 15))
             => result.value.invoiceWeekId = 20240318

\* The spec's scenario has been computed: pickup on Monday 2024-03-11, delivery
\* 2024-03-15, pushed to the week of 2024-03-18.
C7_Witness ==
  /\ result.done
  /\ args.pickup = JsDate(DaysFromCivil(2024, 3, 11) * HOURS_PER_DAY + 23)
  /\ args.delivery = JsDate(DaysFromCivil(2024, 3, 15) * HOURS_PER_DAY)
  /\ result.value.invoiceWeekId = 20240318

(***************************************************************************)
(* The sequential specification: requests one after the other.             *)
(***************************************************************************)
Init == IdleStore /\ IdleCall

Next ==
  \/ \E body \in PostBodies : ops < MaxOps /\ nextId <= MaxLoads /\ PostLoad(body)
  \/ \E id \in DOMAIN loads : \E body \in PutBodies(loads[id]) :
       ops < MaxOps /\ PutLoad(id, body)
  \/ \E id \in DOMAIN loads, d \in Drivers \cup {NoDriver} :
       ops < MaxOps /\ PatchDriver(id, d)
  \/ \E id \in DOMAIN loads, c \in Carriers : ops < MaxOps /\ PatchCarrier(id, c)
  \/ \E id \in DOMAIN loads : ops < MaxOps /\ CancelLoad(id)
  \/ \E id \in DOMAIN loads : ops < MaxOps /\ UncancelLoad(id)
  \/ \E id \in DOMAIN loads : ops < MaxOps /\ DeleteLoad(id)
  \/ \E q \in ListQueries : ops < MaxOps /\ GetLoads(q)

Spec == Init /\ [][Next]_vars

(***************************************************************************)
(* What the stored loads imply, stated without the engines: day numbers    *)
(* for the dates, the normalised key for the numbers.                      *)
(***************************************************************************)
DateOnlyOverlap(a, b) ==
  /\ UtcDay(a.pickup_date) < UtcDay(b.delivery_date)
  /\ UtcDay(b.pickup_date) < UtcDay(a.delivery_date)

ExpectedDriverConflicts(L, a) ==
  IF L[a].cancelled \/ L[a].driver_id = NoDriver THEN {}
  ELSE {b \in DOMAIN L \ {a} :
          /\ ~L[b].cancelled
          /\ L[b].driver_id = L[a].driver_id
          /\ DateOnlyOverlap(L[a], L[b])}

SameNumber(x, y) == normalizeLoadNumberKey(x) = normalizeLoadNumberKey(y)

ExpectedDuplicateConflicts(L, a) ==
  IF L[a].cancelled \/ L[a].carrier_id = NoCarrier
     \/ normalizeLoadNumberKey(L[a].load_number) = <<>>
  THEN {}
  ELSE {b \in DOMAIN L \ {a} :
          /\ ~L[b].cancelled
          /\ L[b].carrier_id = L[a].carrier_id
          /\ SameNumber(L[b].load_number, L[a].load_number)}

ListedBy(doc) ==
  doc.driver_conflict_ids \cup doc.duplicate_conflict_ids \cup doc.date_conflict_ids

NoWarnings(doc) ==
  /\ doc.driver_conflict_ids = {} /\ ~doc.driver_conflict
  /\ doc.duplicate_conflict_ids = {} /\ ~doc.duplicate_conflict
  /\ doc.date_conflict_ids = {}

LastDrivers == IF last.op = "none" THEN {} ELSE last.drivers

\* C1: after recalculateDriverConflictsForDriver(D) has run in a request, every
\* non-cancelled load of D holds exactly the other non-cancelled loads of D whose
\* date-only interval overlaps its own, the flag says whether that set is non-empty,
\* and membership is mutual.
C1_DriverRecomputeExact ==
  \A d \in LastDrivers :
    \A a \in DOMAIN loads :
      (~loads[a].cancelled /\ loads[a].driver_id = d) =>
        /\ loads[a].driver_conflict_ids = ExpectedDriverConflicts(loads, a)
        /\ loads[a].driver_conflict = (loads[a].driver_conflict_ids # {})
        /\ \A b \in DOMAIN loads :
             (~loads[b].cancelled /\ loads[b].driver_id = d /\ b # a) =>
               /\ (b \in loads[a].driver_conflict_ids) = (a \in loads[b].driver_conflict_ids)
               /\ (b \in loads[a].driver_conflict_ids) = DateOnlyOverlap(loads[a], loads[b])

\* A recompute has left a driver with two loads that list each other and a third,
\* overlapping neither, with an empty list.
C1_Witness ==
  \E d \in LastDrivers : \E a, b, c \in DOMAIN loads :
    /\ a # b /\ c # a /\ c # b
    /\ \A i \in {a, b, c} : ~loads[i].cancelled /\ loads[i].driver_id = d
    /\ loads[a].driver_conflict_ids = {b} /\ loads[a].driver_conflict
    /\ loads[b].driver_conflict_ids = {a} /\ loads[b].driver_conflict
    /\ loads[c].driver_conflict_ids = {} /\ ~loads[c].driver_conflict

\* No load has been deleted: every id handed out is still stored.
NothingDeleted == Cardinality(DOMAIN loads) = nextId - 1

\* C5: between requests (creates, updates, reassignments, cancels, uncancels and
\* list refreshes, no delete), a cancelled load has no warnings of its own and is
\* listed by no load that is not cancelled.
C5_CancelledLoadsClean ==
  NothingDeleted =>
    \A a \in DOMAIN loads :
      loads[a].cancelled =>
        /\ NoWarnings(loads[a])
        /\ \A b \in DOMAIN loads : ~loads[b].cancelled => a \notin ListedBy(loads[b])

(***************************************************************************)
(* The load-number scenario: loads of one driver over the same days, two   *)
(* carriers, the number spelled "A100" or "a100 ".                         *)
(***************************************************************************)
NumberBodies ==
  {LoadBody(1, c, n, <<Mon00, Wed00>>, FALSE, FALSE) : c \in Carriers, n \in LoadNumbers}

NumberPutBodies(doc) ==
  {LoadBody(doc.driver_id, doc.carrier_id, n, <<doc.pickup_date, doc.delivery_date>>,
            doc.cancelled, doc.confirmed) : n \in LoadNumbers}

ListAll == [driver_id |-> NoDriver, cancelled |-> "any"]

NextNumbers ==
  \/ \E body \in NumberBodies :
       ops < MaxNumberOps /\ nextId <= MaxNumberLoads /\ PostLoad(body)
  \/ \E id \in DOMAIN loads : \E body \in NumberPutBodies(loads[id]) :
       ops < MaxNumberOps /\ PutLoad(id, body)
  \/ \E id \in DOMAIN loads : ops < MaxNumberOps /\ CancelLoad(id)
  \/ ops < MaxNumberOps /\ GetLoads(ListAll)

SpecNumbers == Init /\ [][NextNumbers]_vars

\* C4: when a cancel of a load that had conflicts has completed, the cancelled load
\* has no warnings left and no other load lists it in any of its three sets.
C4_CancelClearsEverywhere ==
  (last.op = "cancel" /\ last.active) =>
    /\ NoWarnings(loads[last.id])
    /\ \A b \in DOMAIN loads \ {last.id} : last.id \notin ListedBy(loads[b])

\* The last request ran the duplicate recompute for this carrier and this number.
RecomputedPair(carrierId, loadNumber) ==
  /\ last.op # "none"
  /\ \E p \in last.pairs : p.carrierId = carrierId /\ SameNumber(p.loadNumber, loadNumber)

\* C6: three non-cancelled loads of one carrier stored as "A100", "a100 " and "A100"
\* are, after the duplicate recompute for that carrier and number, each flagged
\* with exactly the other two; a load of another carrier with the same number is
\* in none of their sets and lists none of them.
C6_ThreeSpellingsAllFlagged ==
  \A x, y, z, w \in DOMAIN loads :
    ( /\ Cardinality({x, y, z, w}) = 4
      /\ \A i \in {x, y, z, w} : ~loads[i].cancelled
      /\ loads[x].load_number = A100
      /\ loads[y].load_number = a100sp
      /\ loads[z].load_number = A100
      /\ SameNumber(loads[w].load_number, A100)
      /\ loads[y].carrier_id = loads[x].carrier_id
      /\ loads[z].carrier_id = loads[x].carrier_id
      /\ loads[w].carrier_id # loads[x].carrier_id
      /\ RecomputedPair(loads[x].carrier_id, A100) )
    => /\ \A i \in {x, y, z} :
            /\ loads[i].duplicate_conflict
            /\ loads[i].duplicate_conflict_ids = {x, y, z} \ {i}
       /\ loads[w].duplicate_conflict_ids \cap {x, y, z} = {}

\* C9: after the refresh of a list request, every load of the batch holds the
\* driver and duplicate warnings the stored loads imply.
C9_RefreshMakesFlagsCurrent ==
  last.op = "list" =>
    \A a \in last.batch :
      /\ loads[a].driver_conflict_ids = ExpectedDriverConflicts(loads, a)
      /\ loads[a].driver_conflict = (ExpectedDriverConflicts(loads, a) # {})
      /\ loads[a].duplicate_conflict_ids = ExpectedDuplicateConflicts(loads, a)
      /\ loads[a].duplicate_conflict = (ExpectedDuplicateConflicts(loads, a) # {})

(***************************************************************************)
(* Requests in flight together.  Every await of a handler is a step of its *)
(* own: an engine's find hands the writes it decided on to the steps that  *)
(* follow, and steps of other requests may come in between.  The handler's *)
(* own findById and save are its first step.                               *)
(***************************************************************************)
Call(t, id, ids, doc) == [t |-> t, id |-> id, ids |-> ids, doc |-> doc]

NoDoc == <<>>

RECURSIVE SeqOfSet(_)
SeqOfSet(S) ==
  IF S = {} THEN <<>>
  ELSE LET x == CHOOSE y \in S : TRUE IN <<x>> \o SeqOfSet(S \ {x})

\* The calls of a handler after its save, in the order of the handler.
DriverCalls(id, doc) ==
  IF doc.driver_id # NoDriver
  THEN <<Call("recalculateDriver", id, {}, doc)>>
  ELSE <<Call("setDriver", id, {}, NoDoc)>>

DuplicateCalls(id, doc) ==
  IF HasPair(doc)
  THEN <<Call("recalculateDuplicate", id, {}, doc)>>
  ELSE <<Call("setDuplicate", id, {}, NoDoc)>>

OldDriverCalls(id, old, doc) ==
  IF old.driver_id # NoDriver /\ old.driver_id # doc.driver_id
  THEN <<Call("recalculateDriver", id, {}, old)>>
  ELSE <<>>

OldPairCalls(id, old) ==
  IF HasPair(old) THEN <<Call("recalculateDuplicate", id, {}, old)>> ELSE <<>>

DateCalls(id, doc) == <<Call("checkAndUpdateConflicts", id, {}, doc)>>

postCalls(id, doc) == DateCalls(id, doc) \o DriverCalls(id, doc) \o DuplicateCalls(id, doc)

putCalls(id, old, doc) ==
  (IF DatesOrDriverChanged(old, doc)
   THEN DateCalls(id, doc) \o OldDriverCalls(id, old, doc) \o DriverCalls(id, doc)
   ELSE <<>>)
  \o (IF PairChanged(old, doc)
      THEN OldPairCalls(id, old) \o DuplicateCalls(id, doc)
      ELSE <<>>)

patchDriverCalls(id, old, doc) ==
  IF doc.driver_id # old.driver_id
  THEN DateCalls(id, doc) \o OldDriverCalls(id, old, doc) \o DriverCalls(id, doc)
  ELSE <<>>

patchCarrierCalls(id, old, doc) == OldPairCalls(id, old) \o DuplicateCalls(id, doc)

cancelCalls(id, old) ==
  <<Call("removeFromConflictLists", id, {}, NoDoc), Call("clearDates", id, {}, NoDoc)>>
  \o (IF old.driver_id # NoDriver THEN <<Call("recalculateDriver", id, {}, old)>> ELSE <<>>)
  \o OldPairCalls(id, old)
  \o <<Call("setDriver", id, {}, NoDoc), Call("setDuplicate", id, {}, NoDoc)>>

uncancelCalls(id, doc) ==
  DateCalls(id, doc)
  \o (IF doc.driver_id # NoDriver THEN <<Call("recalculateDriver", id, {}, doc)>> ELSE <<>>)
  \o OldPairCalls(id, doc)

deleteCalls(id) ==
  <<Call("removeFromConflictLists", id, {}, NoDoc), Call("findByIdAndDelete", id, {}, NoDoc)>>

DriverDoc(d) == [driver_id |-> d]

refreshCalls(L, batch) ==
  (IF RefreshClearDriverIds(L, batch) # {}
   THEN <<Call("clearDriverMany", 0, RefreshClearDriverIds(L, batch), NoDoc)>> ELSE <<>>)
  \o (IF RefreshClearDuplicateIds(L, batch) # {}
      THEN <<Call("clearDuplicateMany", 0, RefreshClearDuplicateIds(L, batch), NoDoc)>>
      ELSE <<>>)
  \o [k \in 1..Cardinality(RefreshDriverIds(L, batch)) |->
        Call("recalculateDriver", 0, {}, DriverDoc(SeqOfSet(RefreshDriverIds(L, batch))[k]))]
  \o [k \in 1..Cardinality(RefreshDuplicatePairs(L, batch)) |->
        Call("recalculateDuplicate", 0, {},
             [carrier_id |-> SeqOfSet(RefreshDuplicatePairs(L, batch))[k].carrierId,
              load_number |-> SeqOfSet(RefreshDuplicatePairs(L, batch))[k].loadNumber])]

\* The find of an engine, on the store as it is now, and the writes it leads to.
WritesOfSet(t, ids, value(_)) ==
  [k \in 1..Cardinality(ids) |-> Call(t, SeqOfSet(ids)[k], value(SeqOfSet(ids)[k]), NoDoc)]

DateWrites(id, conflictIds) ==
  <<Call("setDates", id, conflictIds, NoDoc)>>
  \o WritesOfSet("pushDate", conflictIds, LAMBDA c : {id})

DriverWrites(cmap) == WritesOfSet("setDriver", DOMAIN cmap, LAMBDA i : cmap[i])

DuplicateWrites(group) == WritesOfSet("setDuplicate", group, LAMBDA i : group \ {i})

EngineReads == {"checkAndUpdateConflicts", "recalculateDriver", "recalculateDuplicate"}

Expand(L, c) ==
  IF c.t = "checkAndUpdateConflicts"
  THEN DateWrites(c.id, findConflictingLoads(L, c.id, c.doc.pickup_date,
                                             c.doc.delivery_date, c.doc.driver_id))
  ELSE IF c.t = "recalculateDriver"
  THEN DriverWrites(DriverConflictMap(L, c.doc.driver_id))
  ELSE DuplicateWrites(getDuplicateGroupLoads(L, c.doc.carrier_id, c.doc.load_number))

\* updateLoadConflicts throws 'Load not found', and a save of a deleted document
\* fails: the handler ends with a 500 and its remaining calls are not made.
Throws(L, c) == c.t \in {"setDates", "clearDates"} /\ c.id \notin DOMAIN L

ApplyWrite(L, c) ==
  IF c.t = "setDates" THEN [L EXCEPT ![c.id].date_conflict_ids = c.ids]
  ELSE IF c.t = "clearDates" THEN [L EXCEPT ![c.id].date_conflict_ids = {}]
  ELSE IF c.t = "pushDate"
  THEN (IF c.id \in DOMAIN L THEN [L EXCEPT ![c.id].date_conflict_ids = @ \cup c.ids]
        ELSE L)
  ELSE IF c.t = "setDriver" THEN SetDriverFlags(L, c.id, c.ids)
  ELSE IF c.t = "setDuplicate" THEN SetDuplicateFlags(L, c.id, c.ids)
  ELSE IF c.t = "removeFromConflictLists" THEN removeFromConflictLists(L, c.id)
  ELSE IF c.t = "clearDriverMany" THEN ClearDriverFlags(L, c.ids)
  ELSE IF c.t = "clearDuplicateMany" THEN ClearDuplicateFlags(L, c.ids)
  ELSE findByIdAndDelete(L, c.id)

Idle == <<>>

\* A request takes the first free slot.
FreeSlot(p) == procs[p] = Idle /\ \A q \in DOMAIN procs : q < p => procs[q] # Idle

Begin(p, L, calls) ==
  /\ FreeSlot(p)
  /\ ops < MaxConcOps
  /\ loads' = L
  /\ procs' = [procs EXCEPT ![p] = calls]
  /\ ops' = ops + 1
  /\ UNCHANGED <<invoices, last, args, result>>

BeginPost(p, body) ==
  /\ nextId <= MaxConcLoads
  /\ Begin(p, InsertLoad(loads, nextId, body), postCalls(nextId, body))
  /\ nextId' = nextId + 1

BeginPut(p, id, body) ==
  /\ Begin(p,
           [loads EXCEPT ![id] =
              AssignBody(loads[id], body,
                         InvoiceWeekTable[<<body.pickup_date, body.delivery_date>>])],
           putCalls(id, loads[id], body))
  /\ UNCHANGED nextId

BeginPatchDriver(p, id, d) ==
  /\ Begin(p, [loads EXCEPT ![id].driver_id = d],
           patchDriverCalls(id, loads[id], [loads[id] EXCEPT !.driver_id = d]))
  /\ UNCHANGED nextId

BeginPatchCarrier(p, id, c) ==
  /\ Begin(p, [loads EXCEPT ![id].carrier_id = c],
           patchCarrierCalls(id, loads[id], [loads[id] EXCEPT !.carrier_id = c]))
  /\ UNCHANGED nextId

BeginCancel(p, id) ==
  /\ Begin(p, [loads EXCEPT ![id].cancelled = TRUE], cancelCalls(id, loads[id]))
  /\ UNCHANGED nextId

BeginUncancel(p, id) ==
  /\ Begin(p, [loads EXCEPT ![id].cancelled = FALSE], uncancelCalls(id, loads[id]))
  /\ UNCHANGED nextId

BeginDelete(p, id) ==
  /\ Begin(p, loads, deleteCalls(id))
  /\ UNCHANGED nextId

BeginList(p, q) ==
  /\ Begin(p, loads, refreshCalls(loads, ListQuery(loads, q)))
  /\ UNCHANGED nextId

\* The find of the engine call a request has reached.
EngineRead(p) ==
  /\ procs[p] # Idle
  /\ Head(procs[p]).t \in EngineReads
  /\ procs' = [procs EXCEPT ![p] = Expand(loads, Head(@)) \o Tail(@)]
  /\ UNCHANGED <<loads, nextId, invoices, last, ops, args, result>>

\* One write of the request.
EngineWrite(p) ==
  /\ procs[p] # Idle
  /\ Head(procs[p]).t \notin EngineReads
  /\ ~Throws(loads, Head(procs[p]))
  /\ loads' = ApplyWrite(loads, Head(procs[p]))
  /\ procs' = [procs EXCEPT ![p] = Tail(@)]
  /\ UNCHANGED <<nextId, invoices, last, ops, args, result>>

\* The write throws and the handler answers 500.
EngineThrow(p) ==
  /\ procs[p] # Idle
  /\ Throws(loads, Head(procs[p]))
  /\ procs' = [procs EXCEPT ![p] = Idle]
  /\ UNCHANGED <<loads, nextId, invoices, last, ops, args, result>>

ConcBodies ==
  {LoadBody(d, 1, A100, <<Mon00, Wed00>>, FALSE, FALSE) : d \in {1, NoDriver}}

ConcPutBodies(doc) ==
  {LoadBody(doc.driver_id, doc.carrier_id, doc.load_number, iv, doc.cancelled,
            doc.confirmed) : iv \in {<<Mon00, Tue15>>, <<Mon00, Wed00>>}}

InitConc ==
  /\ loads = <<>>
  /\ nextId = 1
  /\ invoices = <<>>
  /\ last = [op |-> "none"]
  /\ ops = 0
  /\ procs = [p \in 1..MaxInFlight |-> Idle]
  /\ IdleCall

NextConc ==
  \/ \E p \in DOMAIN procs, body \in ConcBodies : BeginPost(p, body)
  \/ \E p \in DOMAIN procs, id \in DOMAIN loads :
       \E body \in ConcPutBodies(loads[id]) : BeginPut(p, id, body)
  \/ \E p \in DOMAIN procs, id \in DOMAIN loads, d \in {1, NoDriver} :
       BeginPatchDriver(p, id, d)
  \/ \E p \in DOMAIN procs, id \in DOMAIN loads : BeginPatchCarrier(p, id, 2)
  \/ \E p \in DOMAIN procs, id \in DOMAIN loads : BeginCancel(p, id)
  \/ \E p \in DOMAIN procs, id \in DOMAIN loads : BeginUncancel(p, id)
  \/ \E p \in DOMAIN procs, id \in DOMAIN loads : BeginDelete(p, id)
  \/ \E p \in DOMAIN procs : BeginList(p, ListAll)
  \/ \E p \in DOMAIN procs : EngineRead(p)
  \/ \E p \in DOMAIN procs : EngineWrite(p)
  \/ \E p \in DOMAIN procs : EngineThrow(p)

SpecConc == InitConc /\ [][NextConc]_vars

\* C2: whatever requests have run, one after another or interleaved, no load lists
\* its own id in its driver, duplicate or date conflict ids.
C2_NoSelfConflict ==
  \A a \in DOMAIN loads : a \notin ListedBy(loads[a])

\* Two requests are both between a find and the writes it decided on, and a load
\* carries all three kinds of warning.
C2_Witness ==
  /\ \A p \in DOMAIN procs : procs[p] # Idle /\ Head(procs[p]).t \notin EngineReads
  /\ \E a \in DOMAIN loads :
       /\ loads[a].driver_conflict_ids # {}
       /\ loads[a].duplicate_conflict_ids # {}
       /\ loads[a].date_conflict_ids # {}

(***************************************************************************)
(* The list request with a store that can fail: any find and any write of  *)
(* the refresh may throw.  procs holds the one request: the calls still to *)
(* make, the writes of the recompute under way, and what became of each    *)
(* recompute.                                                              *)
(***************************************************************************)
Recomputes(calls) ==
  {calls[k] : k \in {j \in DOMAIN calls : calls[j].t \in EngineReads}}

RefreshRequest(L, calls) ==
  [pc |-> "refresh", before |-> L, todo |-> calls, writes |-> <<>>, cur |-> NoDoc, curFailed |-> FALSE,
   items |-> Recomputes(calls), invoked |-> {}, completed |-> {}, failed |-> {},
   clearFailed |-> FALSE, failures |-> 0]

\* Without the try around one recompute its failure reaches the catch of the
\* refresh, which ends it.
AfterItemFailureUncaught(r) ==
  [r EXCEPT !.failed = @ \cup {r.cur}, !.writes = <<>>, !.curFailed = FALSE,
            !.todo = <<>>]

\* try { await recalculate...(item) } catch (e) { console.error(...) }: the failed
\* recompute is logged and the refresh goes on with the calls that remain.
AfterItemFailure(r) ==
  [r EXCEPT !.failed = @ \cup {r.cur}, !.writes = <<>>, !.curFailed = FALSE]

AfterItemSuccess(r) ==
  [r EXCEPT !.completed = @ \cup {r.cur}, !.writes = <<>>, !.curFailed = FALSE]

AfterLastWrite(r) ==
  IF r.writes # <<>> THEN r
  ELSE IF r.curFailed THEN AfterItemFailure(r) ELSE AfterItemSuccess(r)

InRefresh == procs # Idle /\ procs.pc = "refresh"

CanFail == procs.failures < MaxFailures

\* router.get('/'): the seed find, then refreshConflictsForLoads(seedLoads).
ListBegin(q) ==
  /\ procs = Idle
  /\ loads # <<>>
  /\ procs' = RefreshRequest(loads, refreshCalls(loads, ListQuery(loads, q)))
  /\ UNCHANGED <<loads, nextId, invoices, last, ops, args, result>>

\* The seed find throws: the catch of the route logs it and the route goes on.
SeedFindFails ==
  /\ procs = Idle
  /\ loads # <<>>
  /\ procs' = [RefreshRequest(loads, <<>>) EXCEPT !.pc = "respond", !.clearFailed = TRUE,
                                            !.failures = 1]
  /\ UNCHANGED <<loads, nextId, invoices, last, ops, args, result>>

AtClear == InRefresh /\ procs.writes = <<>> /\ procs.todo # <<>>
           /\ Head(procs.todo).t \in {"clearDriverMany", "clearDuplicateMany"}

AtRecompute == InRefresh /\ procs.writes = <<>> /\ procs.todo # <<>>
               /\ Head(procs.todo).t \in EngineReads

ClearMany ==
  /\ AtClear
  /\ loads' = ApplyWrite(loads, Head(procs.todo))
  /\ procs' = [procs EXCEPT !.todo = Tail(@)]
  /\ UNCHANGED <<nextId, invoices, last, ops, args, result>>

\* updateMany throws: caught by the catch of refreshConflictsForLoads, which ends.
ClearManyFails ==
  /\ AtClear
  /\ CanFail
  /\ procs' = [procs EXCEPT !.todo = <<>>, !.clearFailed = TRUE, !.failures = @ + 1]
  /\ UNCHANGED <<loads, nextId, invoices, last, ops, args, result>>

\* The find of one recompute.
RecomputeFind ==
  /\ AtRecompute
  /\ procs' = AfterLastWrite(
                [procs EXCEPT !.cur = Head(procs.todo),
                              !.invoked = @ \cup {Head(procs.todo)},
                              !.writes = Expand(loads, Head(procs.todo)),
                              !.todo = Tail(@)])
  /\ UNCHANGED <<loads, nextId, invoices, last, ops, args, result>>

RecomputeFindFails ==
  /\ AtRecompute
  /\ CanFail
  /\ procs' = AfterItemFailure(
                [procs EXCEPT !.cur = Head(procs.todo),
                              !.invoked = @ \cup {Head(procs.todo)},
                              !.todo = Tail(@),
                              !.failures = @ + 1])
  /\ UNCHANGED <<loads, nextId, invoices, last, ops, args, result>>

\* One updateOne of the Promise.all of a recompute.
RecomputeWrite ==
  /\ InRefresh
  /\ procs.writes # <<>>
  /\ loads' = ApplyWrite(loads, Head(procs.writes))
  /\ procs' = AfterLastWrite([procs EXCEPT !.writes = Tail(@)])
  /\ UNCHANGED <<nextId, invoices, last, ops, args, result>>

\* It rejects; the other updates of the Promise.all are under way already.
RecomputeWriteFails ==
  /\ InRefresh
  /\ procs.writes # <<>>
  /\ CanFail
  /\ procs' = AfterLastWrite([procs EXCEPT !.writes = Tail(@), !.curFailed = TRUE,
                                           !.failures = @ + 1])
  /\ UNCHANGED <<loads, nextId, invoices, last, ops, args, result>>

\* refreshConflictsForLoads has returned.
RefreshReturns ==
  /\ InRefresh
  /\ procs.writes = <<>>
  /\ procs.todo = <<>>
  /\ procs' = [procs EXCEPT !.pc = "respond"]
  /\ UNCHANGED <<loads, nextId, invoices, last, ops, args, result>>

\* The second find of the route and res.json(loads).
ListRespond ==
  /\ procs # Idle
  /\ procs.pc = "respond"
  /\ procs' = [procs EXCEPT !.pc = "done"]
  /\ result' = [done |-> TRUE, status |-> 200, loads |-> loads]
  /\ UNCHANGED <<loads, nextId, invoices, last, ops, args>>

RefreshBodies ==
  {LoadBody(d, d, A100, <<Mon00, Wed00>>, FALSE, FALSE) : d \in Drivers}
  \cup {LoadBody(NoDriver, NoCarrier, A100, <<Mon00, Wed00>>, FALSE, FALSE)}

InitRefresh ==
  /\ loads = <<>>
  /\ nextId = 1
  /\ invoices = <<>>
  /\ last = [op |-> "none"]
  /\ ops = 0
  /\ procs = Idle
  /\ IdleCall

NextRefresh ==
  \/ \E body \in RefreshBodies :
       procs = Idle /\ ops < MaxRefreshOps /\ nextId <= MaxRefreshLoads /\ PostLoad(body)
  \/ \E id \in DOMAIN loads : procs = Idle /\ ops < MaxRefreshOps /\ DeleteLoad(id)
  \/ ListBegin(ListAll)
  \/ SeedFindFails
  \/ ClearMany
  \/ ClearManyFails
  \/ RecomputeFind
  \/ RecomputeFindFails
  \/ RecomputeWrite
  \/ RecomputeWriteFails
  \/ RefreshReturns
  \/ ListRespond

SpecRefresh == InitRefresh /\ [][NextRefresh]_vars

Responded == procs # Idle /\ procs.pc = "done"

\* What a recompute that ran undisturbed leaves on the loads it is about.
RecomputeDone(L, c) ==
  IF c.t = "recalculateDriver"
  THEN \A a \in DOMAIN L :
         (~L[a].cancelled /\ L[a].driver_id = c.doc.driver_id) =>
           /\ L[a].driver_conflict_ids = ExpectedDriverConflicts(L, a)
           /\ L[a].driver_conflict = (ExpectedDriverConflicts(L, a) # {})
  ELSE \A a \in DOMAIN L :
         (/\ ~L[a].cancelled
          /\ L[a].carrier_id = c.doc.carrier_id
          /\ SameNumber(L[a].load_number, c.doc.load_number)) =>
           /\ L[a].duplicate_conflict_ids = ExpectedDuplicateConflicts(L, a)
           /\ L[a].duplicate_conflict = (ExpectedDuplicateConflicts(L, a) # {})

\* C10: whatever find or write of the refresh throws, the list request goes on to
\* its response, a 200 with the loads as stored; and when the clearing writes went
\* through, every recompute of the batch was invoked and every one without a
\* failure of its own completed, leaving the flags of its loads current.
C10_RefreshFailuresContained ==
  /\ (procs # Idle /\ procs.pc # "done") => ENABLED NextRefresh
  /\ Responded =>
       /\ result.done /\ result.status = 200 /\ result.loads = loads
       /\ ~procs.clearFailed =>
            /\ procs.invoked = procs.items
            /\ procs.completed = procs.items \ procs.failed
            /\ \A c \in procs.completed : RecomputeDone(loads, c)

\* A list request has answered after the recompute of one driver failed and the
\* recomputes of another driver and of a pair completed, one of them replacing a
\* stale list.
C10_Witness ==
  /\ Responded
  /\ ~procs.clearFailed
  /\ \E f \in procs.failed, c \in procs.completed, d \in procs.completed :
       /\ f.t = "recalculateDriver"
       /\ c.t = "recalculateDriver"
       /\ d.t = "recalculateDuplicate"
       /\ \E a \in DOMAIN loads :
            /\ loads[a].driver_id = c.doc.driver_id
            /\ procs.before[a].driver_conflict_ids # loads[a].driver_conflict_ids

(***************************************************************************)
(* Invoice generation (routes/invoices.js, POST /generate).  An invoice    *)
(* number is its parts: the base, and for a request with several groups    *)
(* the week without dashes and the two-digit position.                     *)
(***************************************************************************)
\* String(n).padStart(2, '0'), as digits.
padStart2(n) == IF n < 10 THEN <<0, n>> ELSE <<n \div 10, n % 10>>

BaseNumber(base) == [base |-> base, week |-> 0, suffix |-> <<>>]

SuffixedNumber(base, weekCompact, i) ==
  [base |-> base, week |-> weekCompact, suffix |-> padStart2(i)]

\* The loads the request selects: by rule (carrier filter) or by ids; never the
\* cancelled or invoiced ones, the unconfirmed ones only if asked for.
SelectedLoads(L, req) ==
  {i \in DOMAIN L :
     /\ ~L[i].cancelled
     /\ ~L[i].invoiced
     /\ (req.includeUnconfirmed \/ L[i].confirmed)
     /\ IF req.byRule
        THEN req.ruleCarrier # NoCarrier => L[i].carrier_id = req.ruleCarrier
        ELSE i \in req.load_ids}

ComputedWeek(doc) == InvoiceWeekTable[<<doc.pickup_date, doc.delivery_date>>]

\* The bulkWrite left out: stored invoice fields stay as they are.
BackfillInvoiceFieldsSkipped(L, ids) == L

\* Load.bulkWrite of the recomputed invoice fields.
BackfillInvoiceFields(L, ids) ==
  [i \in DOMAIN L |->
     IF i \in ids
     THEN [L[i] EXCEPT !.invoice_monday = ComputedWeek(L[i]).invoiceMonday,
                       !.invoice_week_id = ComputedWeek(L[i]).invoiceWeekId]
     ELSE L[i]]

\* Every load in one group, whatever its carrier and week.
GroupKeyOneGroup(doc) == <<0, 0>>

\* `${carrierIdStr}|${invoiceWeekId}`
GroupKey(doc) == <<doc.carrier_id, ComputedWeek(doc).invoiceWeekId>>

KeyBefore(a, b) == a[1] < b[1] \/ (a[1] = b[1] /\ a[2] < b[2])

\* Array.from(byCarrierAndWeek.keys()).sort()
RECURSIVE SortKeys(_)
SortKeys(keys) ==
  IF keys = {} THEN <<>>
  ELSE LET first == CHOOSE k \in keys : \A other \in keys \ {k} : KeyBefore(k, other)
       IN  <<first>> \o SortKeys(keys \ {first})

InvoiceOfGroup(L, ids, groupKeys, base, i) ==
  [invoice_number |-> IF Len(groupKeys) = 1 THEN BaseNumber(base)
                      ELSE SuffixedNumber(base, groupKeys[i][2], i),
   load_ids |-> {l \in ids : GroupKey(L[l]) = groupKeys[i]},
   carrier_id |-> groupKeys[i][1],
   invoice_week_id |-> groupKeys[i][2]]

\* invoice_number is unique: the save of a number that exists throws.
NumbersOf(I) == {I[k].invoice_number : k \in DOMAIN I}

SavedBeforeThrow(I, planned) ==
  LET bad == {k \in DOMAIN planned : planned[k].invoice_number \in NumbersOf(I)}
  IN  IF bad = {} THEN planned
      ELSE SubSeq(planned, 1, (CHOOSE k \in bad : \A j \in bad : k <= j) - 1)

MarkInvoiced(L, ids) ==
  [i \in DOMAIN L |-> IF i \in ids THEN [L[i] EXCEPT !.invoiced = TRUE] ELSE L[i]]

Generated(status, base, eligible, created) ==
  [op |-> "generate", status |-> status, base |-> base, eligible |-> eligible,
   created |-> created]

generateSave(L, I, base, ids, planned, saved) ==
  IF Len(saved) = Len(planned)
  THEN [loads |-> MarkInvoiced(L, ids), invoices |-> I \o saved,
        last |-> Generated(201, base, ids, saved)]
  ELSE [loads |-> L, invoices |-> I \o saved, last |-> Generated(500, base, ids, saved)]

generatePlanned(L, I, base, ids, planned) ==
  generateSave(L, I, base, ids, planned, SavedBeforeThrow(I, planned))

generateGroups(L, I, base, ids, groupKeys) ==
  generatePlanned(L, I, base, ids,
                  [i \in 1..Len(groupKeys) |-> InvoiceOfGroup(L, ids, groupKeys, base, i)])

generateSelected(L, I, base, ids) ==
  IF ids = {} \/ \E i \in ids : L[i].carrier_id = NoCarrier
  THEN [loads |-> L, invoices |-> I, last |-> Generated(400, base, ids, <<>>)]
  ELSE generateGroups(BackfillInvoiceFields(L, ids), I, base, ids,
                      SortKeys({GroupKey(L[i]) : i \in ids}))

generate(L, I, req) == generateSelected(L, I, req.base, SelectedLoads(L, req))

GenerateInvoices(req) ==
  /\ LET r == generate(loads, invoices, req)
     IN  loads' = r.loads /\ invoices' = r.invoices /\ last' = r.last
  /\ ops' = ops + 1
  /\ UNCHANGED <<nextId, procs, args, result>>

GenBodies ==
  {LoadBody(NoDriver, c, A100, iv, FALSE, cf) :
     c \in Carriers, iv \in {<<Mon00, Tue15>>, <<Tue00, Wed00>>}, cf \in BOOLEAN}
  \cup {LoadBody(NoDriver, NoCarrier, A100, <<Tue00, Wed00>>, FALSE, TRUE)}

GenRequests ==
  [byRule : {FALSE}, ruleCarrier : {NoCarrier}, load_ids : SUBSET (1..MaxGenLoads),
   includeUnconfirmed : BOOLEAN, base : {1, 2}]
  \cup [byRule : {TRUE}, ruleCarrier : Carriers \cup {NoCarrier}, load_ids : {{}},
        includeUnconfirmed : BOOLEAN, base : {1, 2}]

NextGen ==
  \/ \E body \in GenBodies : ops < MaxGenOps /\ nextId <= MaxGenLoads /\ PostLoad(body)
  \/ \E req \in GenRequests : ops < MaxGenOps /\ loads # <<>> /\ GenerateInvoices(req)

SpecGen == Init /\ [][NextGen]_vars

Succeeded == last.op = "generate" /\ last.status = 201

CarrierAndWeek(i) ==
  <<loads[i].carrier_id,
    computeInvoiceWeekFields(JsDate(loads[i].pickup_date),
                             JsDate(loads[i].delivery_date)).invoiceWeekId>>

InvoicePairs == {CarrierAndWeek(i) : i \in last.eligible}

InvoicesHolding(i) == {k \in DOMAIN last.created : i \in last.created[k].load_ids}

\* C8: a successful generation request creates exactly one invoice per distinct
\* (carrier, recomputed invoice week) pair of its eligible loads; every eligible
\* load is in exactly one created invoice; every load of an invoice is eligible
\* and has the invoice's carrier and week; several invoices carry pairwise
\* distinct numbers made of the base, the week and the suffix 01, 02, ... in
\* order; a single invoice carries the base number unchanged.
C8_GenerationPartitions ==
  Succeeded =>
    LET created == last.created
        n == Len(created)
    IN  /\ n = Cardinality(InvoicePairs)
        /\ \A pair \in InvoicePairs :
             Cardinality({k \in 1..n : <<created[k].carrier_id,
                                         created[k].invoice_week_id>> = pair}) = 1
        /\ \A i \in last.eligible : Cardinality(InvoicesHolding(i)) = 1
        /\ \A k \in 1..n : \A i \in created[k].load_ids :
             /\ i \in last.eligible
             /\ CarrierAndWeek(i) = <<created[k].carrier_id, created[k].invoice_week_id>>
        /\ n > 1 =>
             /\ \A j, k \in 1..n : j # k => created[j].invoice_number # created[k].invoice_number
             /\ \A k \in 1..n :
                  /\ created[k].invoice_number.base = last.base
                  /\ created[k].invoice_number.week = created[k].invoice_week_id
                  /\ created[k].invoice_number.suffix = <<0, k>>
        /\ n = 1 => created[1].invoice_number = [base |-> last.base, week |-> 0, suffix |-> <<>>]
        /\ \A k \in 1..n : \E m \in DOMAIN invoices : invoices[m] = created[k]

\* Three loads of one carrier in two invoice weeks, invoiced by one successful
\* request: two invoices, one of them holding two loads.
C8_Witness ==
  /\ Succeeded
  /\ Len(last.created) = 2
  /\ last.created[1].carrier_id = last.created[2].carrier_id
  /\ last.created[1].invoice_week_id # last.created[2].invoice_week_id
  /\ Cardinality(last.eligible) = 3

(***************************************************************************)
(* The mutation routes with failing engine calls.  Requests run one at a   *)
(* time; every engine call a route awaits either runs or rejects, and what *)
(* a rejection does is decided by the try block the route wrote around the *)
(* call: none (the route's own catch answers 500) or the k-th one (the     *)
(* rest of that block is skipped and the route goes on).                   *)
(***************************************************************************)
Try(calls, k) == [i \in DOMAIN calls |-> [call |-> calls[i], try |-> k]]

RecalculateOld(id, old) ==
  IF old.driver_id # NoDriver THEN <<Call("recalculateDriver", id, {}, old)>> ELSE <<>>

routeSteps(op, id, old, doc) ==
  CASE op = "post" ->
         Try(DateCalls(id, doc), 0) \o Try(DriverCalls(id, doc), 1)
         \o Try(DuplicateCalls(id, doc), 2)
    [] op = "put" ->
         (IF DatesOrDriverChanged(old, doc)
          THEN Try(DateCalls(id, doc), 0)
               \o Try(OldDriverCalls(id, old, doc) \o DriverCalls(id, doc), 1)
          ELSE <<>>)
         \o (IF PairChanged(old, doc)
             THEN Try(OldPairCalls(id, old) \o DuplicateCalls(id, doc), 2)
             ELSE <<>>)
    [] op = "patchDriver" ->
         IF doc.driver_id # old.driver_id
         THEN Try(DateCalls(id, doc), 0)
              \o Try(OldDriverCalls(id, old, doc) \o DriverCalls(id, doc), 1)
         ELSE <<>>
    [] op = "patchCarrier" ->
         Try(OldPairCalls(id, old) \o DuplicateCalls(id, doc), 1)
    [] op = "cancel" ->
         Try(<<Call("removeFromConflictLists", id, {}, NoDoc),
               Call("clearDates", id, {}, NoDoc)>>, 0)
         \o Try(RecalculateOld(id, old), 1)
         \o Try(OldPairCalls(id, old), 2)
         \o Try(<<Call("setDriver", id, {}, NoDoc)>>, 3)
         \o Try(<<Call("setDuplicate", id, {}, NoDoc)>>, 4)
    [] op = "uncancel" ->
         Try(DateCalls(id, doc), 0) \o Try(RecalculateOld(id, doc), 1)
         \o Try(OldPairCalls(id, doc), 2)

RECURSIVE ApplyWrites(_, _)
ApplyWrites(L, writes) ==
  IF writes = <<>> THEN L ELSE ApplyWrites(ApplyWrite(L, Head(writes)), Tail(writes))

\* One awaited engine call, run to its end with no other request in between.
RunCall(L, c) ==
  IF c.t \in EngineReads THEN ApplyWrites(L, Expand(L, c)) ELSE ApplyWrite(L, c)

RouteRequest(op, id, steps) ==
  [op |-> op, id |-> id, todo |-> steps, ran |-> 0, failed |-> 0, skipped |-> 0,
   aborted |-> FALSE, failures |-> 0]

RouteBegin(L, op, id, old, doc) ==
  /\ procs = Idle
  /\ ops < MaxFailOps
  /\ loads' = L
  /\ procs' = RouteRequest(op, id, routeSteps(op, id, old, doc))
  /\ ops' = ops + 1
  /\ UNCHANGED <<invoices, last, args, result>>

FailPost(body) ==
  /\ nextId <= MaxFailLoads
  /\ RouteBegin(InsertLoad(loads, nextId, body), "post", nextId, body, body)
  /\ nextId' = nextId + 1

FailPut(id, body) ==
  /\ RouteBegin([loads EXCEPT ![id] =
                   AssignBody(loads[id], body,
                              InvoiceWeekTable[<<body.pickup_date, body.delivery_date>>])],
                "put", id, loads[id], body)
  /\ UNCHANGED nextId

FailPatchDriver(id, d) ==
  /\ RouteBegin([loads EXCEPT ![id].driver_id = d], "patchDriver", id, loads[id],
                [loads[id] EXCEPT !.driver_id = d])
  /\ UNCHANGED nextId

FailPatchCarrier(id, c) ==
  /\ RouteBegin([loads EXCEPT ![id].carrier_id = c], "patchCarrier", id, loads[id],
                [loads[id] EXCEPT !.carrier_id = c])
  /\ UNCHANGED nextId

FailCancel(id) ==
  /\ ~loads[id].cancelled
  /\ RouteBegin([loads EXCEPT ![id].cancelled = TRUE], "cancel", id, loads[id], loads[id])
  /\ UNCHANGED nextId

FailUncancel(id) ==
  /\ loads[id].cancelled
  /\ RouteBegin([loads EXCEPT ![id].cancelled = FALSE], "uncancel", id, loads[id],
                loads[id])
  /\ UNCHANGED nextId

InRoute == procs # Idle /\ procs.todo # <<>>

CallRuns ==
  /\ InRoute
  /\ loads' = RunCall(loads, Head(procs.todo).call)
  /\ procs' = [procs EXCEPT !.todo = Tail(@), !.ran = @ + 1]
  /\ UNCHANGED <<nextId, invoices, last, ops, args, result>>

\* The calls left once the call at the head has rejected: none when it is in no
\* try block, else those after the block it is in.
AfterRejection(todo) ==
  IF Head(todo).try = 0 THEN <<>>
  ELSE SelectSeq(Tail(todo), LAMBDA s : s.try # Head(todo).try)

CallRejects ==
  /\ InRoute
  /\ CanFail
  /\ procs' = [procs EXCEPT !.todo = AfterRejection(@),
                            !.failed = @ + 1,
                            !.failures = @ + 1,
                            !.skipped = @ + Len(procs.todo) - 1 - Len(AfterRejection(procs.todo)),
                            !.aborted = (Head(procs.todo).try = 0)]
  /\ UNCHANGED <<loads, nextId, invoices, last, ops, args, result>>

\* res.json(populatedLoad), or res.status(500) from the route's catch.
RouteResponds ==
  /\ procs # Idle
  /\ procs.todo = <<>>
  /\ last' = [op |-> procs.op, id |-> procs.id,
              status |-> IF procs.aborted THEN 500
                         ELSE IF procs.op = "post" THEN 201 ELSE 200,
              ran |-> procs.ran, failed |-> procs.failed, skipped |-> procs.skipped]
  /\ procs' = Idle
  /\ UNCHANGED <<loads, nextId, invoices, ops, args, result>>

NextFail ==
  \/ \E body \in ConcBodies : FailPost(body)
  \/ \E id \in DOMAIN loads : \E body \in ConcPutBodies(loads[id]) : FailPut(id, body)
  \/ \E id \in DOMAIN loads, d \in {1, NoDriver} : FailPatchDriver(id, d)
  \/ \E id \in DOMAIN loads : FailPatchCarrier(id, 2)
  \/ \E id \in DOMAIN loads : FailCancel(id)
  \/ \E id \in DOMAIN loads : FailUncancel(id)
  \/ CallRuns
  \/ CallRejects
  \/ RouteResponds

SpecFail == Init /\ [][NextFail]_vars

MutationOps == {"post", "put", "patchDriver", "patchCarrier", "cancel", "uncancel"}

\* C11: a mutation route whose engine calls reject still answers with its success
\* status, and every engine call of the route other than the rejected ones has run.
C11_EngineFailureNeverAborts ==
  (last.op \in MutationOps /\ last.failed > 0) =>
    (last.status \in {200, 201} /\ last.skipped = 0)

(***************************************************************************)
(* Interleaved mutations followed by a list request that runs alone: no    *)
(* request is in flight when it starts and none starts before it ends, so  *)
(* its refresh is one step.  args and result keep the store as the refresh *)
(* found it and as it left it.                                             *)
(***************************************************************************)
AllIdle == \A p \in DOMAIN procs : procs[p] = Idle

QuietList(q) ==
  /\ AllIdle
  /\ ops < MaxConcOps
  /\ loads # <<>>
  /\ loads' = getLoads(loads, q).loads
  /\ last' = getLoads(loads, q).last
  /\ args' = [fn |-> "refreshConflictsForLoads", batch |-> ListQuery(loads, q),
              before |-> loads]
  /\ result' = [done |-> TRUE, loads |-> getLoads(loads, q).loads]
  /\ ops' = ops + 1
  /\ UNCHANGED <<nextId, invoices, procs>>

NextQuiet ==
  \/ \E p \in DOMAIN procs, body \in ConcBodies : BeginPost(p, body)
  \/ \E p \in DOMAIN procs, id \in DOMAIN loads, d \in {1, NoDriver} :
       BeginPatchDriver(p, id, d)
  \/ \E p \in DOMAIN procs, id \in DOMAIN loads : BeginCancel(p, id)
  \/ \E p \in DOMAIN procs : EngineRead(p)
  \/ \E p \in DOMAIN procs : EngineWrite(p)
  \/ QuietList(ListAll)

SpecQuiet == InitConc /\ [][NextQuiet]_vars

QuietRefreshDone == args.fn = "refreshConflictsForLoads"

\* The non-cancelled loads of the drivers that the batch of the refresh names.
AffectedLoads(L, batch) ==
  {b \in DOMAIN L :
     /\ ~L[b].cancelled
     /\ L[b].driver_id # NoDriver
     /\ \E a \in batch : L[a].driver_id = L[b].driver_id}

\* C12: when a refresh has run alone over a batch, after whatever interleaved
\* requests came before it, every non-cancelled load of each driver of the batch
\* holds exactly the loads of that driver overlapping it, and is listed by each
\* of them.
C12_QuietRefreshConverges ==
  QuietRefreshDone =>
    \A b \in AffectedLoads(result.loads, args.batch) :
      /\ result.loads[b].driver_conflict_ids = ExpectedDriverConflicts(result.loads, b)
      /\ result.loads[b].driver_conflict = (ExpectedDriverConflicts(result.loads, b) # {})
      /\ \A c \in result.loads[b].driver_conflict_ids :
           b \in result.loads[c].driver_conflict_ids

\* The refresh found one load of a driver listing another that did not list it
\* back, left behind by interleaved requests, and repaired both.
C12_Witness ==
  /\ QuietRefreshDone
  /\ \E a, b \in AffectedLoads(args.before, args.batch) :
       /\ b \in args.before[a].driver_conflict_ids
       /\ a \notin args.before[b].driver_conflict_ids
       /\ a \in result.loads[b].driver_conflict_ids
       /\ b \in result.loads[a].driver_conflict_ids

(***************************************************************************)
(* Driver reassignment: loads of two drivers, then a PUT or a PATCH /:id   *)
(* that names another driver, each request run to completion.              *)
(***************************************************************************)
MoveBodies ==
  {LoadBody(d, 1, A100, iv, FALSE, FALSE) : d \in Drivers, iv \in Intervals}

\* EditLoad's save: the driver select and the dates.
MovePutBodies(doc) ==
  {LoadBody(d, doc.carrier_id, doc.load_number, iv, doc.cancelled, doc.confirmed) :
     d \in Drivers \cup {NoDriver}, iv \in {<<doc.pickup_date, doc.delivery_date>>, <<Mon00, Wed00>>}}

NextMove ==
  \/ \E body \in MoveBodies :
       ops < MaxMoveOps /\ nextId <= MaxMoveLoads /\ PostLoad(body)
  \/ \E id \in DOMAIN loads : \E body \in MovePutBodies(loads[id]) :
       ops < MaxMoveOps /\ PutLoad(id, body)
  \/ \E id \in DOMAIN loads, d \in Drivers \cup {NoDriver} :
       ops < MaxMoveOps /\ PatchDriver(id, d)
  \/ \E id \in DOMAIN loads : ops < MaxMoveOps /\ CancelLoad(id)

SpecMove == Init /\ [][NextMove]_vars

\* The request just completed took the load last.id from a driver to another (or
\* to none): the drivers it recomputed other than the one the load has now.
FormerDrivers ==
  IF last.op \in {"put", "patchDriver"}
  THEN last.drivers \ {loads[last.id].driver_id}
  ELSE {}

\* C13: after a PUT or PATCH /:id that moved a load from driver D to driver E, no
\* non-cancelled load of D lists the moved load and each holds exactly its
\* overlapping loads of D with the flag to match; the moved load, unless
\* cancelled, holds exactly the non-cancelled loads of E overlapping it and each
\* of them lists it.
C13_ReassignmentUpdatesBothDrivers ==
  \A D \in FormerDrivers :
    /\ \A a \in DOMAIN loads :
         (~loads[a].cancelled /\ loads[a].driver_id = D) =>
           /\ last.id \notin loads[a].driver_conflict_ids
           /\ loads[a].driver_conflict_ids = ExpectedDriverConflicts(loads, a)
           /\ loads[a].driver_conflict = (ExpectedDriverConflicts(loads, a) # {})
    /\ ~loads[last.id].cancelled =>
         /\ loads[last.id].driver_conflict_ids = ExpectedDriverConflicts(loads, last.id)
         /\ loads[last.id].driver_conflict = (ExpectedDriverConflicts(loads, last.id) # {})
         /\ \A b \in loads[last.id].driver_conflict_ids :
              last.id \in loads[b].driver_conflict_ids

\* The moved load had warnings; the load of D whose dates overlap it is now free
\* of conflicts, and the moved load and a load of E list each other.
C13_Witness ==
  /\ last.op \in {"put", "patchDriver"}
  /\ last.active
  /\ \E D \in FormerDrivers : \E a, b \in DOMAIN loads :
       /\ loads[a].driver_id = D /\ ~loads[a].cancelled
       /\ DateOnlyOverlap(loads[a], loads[last.id])
       /\ loads[a].driver_conflict_ids = {} /\ ~loads[a].driver_conflict
       /\ loads[last.id].driver_conflict_ids = {b}
       /\ loads[b].driver_conflict_ids = {last.id}

(***************************************************************************)
(* Carrier and number edits: loads of two carriers with the number spelled *)
(* "A100" or "a100 ", then a PUT that changes the number or a PATCH        *)
(* /:id/carrier, each request run to completion.                           *)
(***************************************************************************)
NextPairs ==
  \/ \E body \in NumberBodies :
       ops < MaxPairOps /\ nextId <= MaxPairLoads /\ PostLoad(body)
  \/ \E id \in DOMAIN loads : \E body \in NumberPutBodies(loads[id]) :
       ops < MaxPairOps /\ PutLoad(id, body)
  \/ \E id \in DOMAIN loads, c \in Carriers : ops < MaxPairOps /\ PatchCarrier(id, c)
  \/ \E id \in DOMAIN loads : ops < MaxPairOps /\ CancelLoad(id)

SpecPairs == Init /\ [][NextPairs]_vars

\* The non-cancelled loads of a (carrier, number) pair.
PairGroup(p) ==
  {b \in DOMAIN loads :
     /\ ~loads[b].cancelled
     /\ loads[b].carrier_id = p.carrierId
     /\ SameNumber(loads[b].load_number, p.loadNumber)}

\* C14: after a PUT or a PATCH /:id/carrier that changed a load's carrier or number,
\* every non-cancelled load of the old pair and of the new pair holds exactly the
\* other non-cancelled loads of its own pair, with the flag to match: the former
\* groupmates no longer list the edited load, and the edited load and its new
\* groupmates all list each other.
C14_PairEditUpdatesBothGroups ==
  last.op \in {"put", "patchCarrier"} =>
    \A p \in last.pairs : \A b \in PairGroup(p) :
      /\ loads[b].duplicate_conflict_ids = ExpectedDuplicateConflicts(loads, b)
      /\ loads[b].duplicate_conflict = (ExpectedDuplicateConflicts(loads, b) # {})

(***************************************************************************)
(* The three flows that create loads: the manual create (POST /loads), the *)
(* OCR upload (POST /upload) and the import of an old invoice              *)
(* (POST /invoices/save-extracted), each request run to completion.        *)
(***************************************************************************)
\* routes/upload.js: the load built from the OCR data, then the same engine calls
\* as the manual create.
uploadLoad(L, id, body) ==
  [loads |-> postLoad(L, id, body).loads,
   last |-> Done("upload", id, DriversOf(body), PairsOf(body), {}, FALSE)]

UploadLoad(body) ==
  /\ loads' = uploadLoad(loads, nextId, body).loads
  /\ last' = uploadLoad(loads, nextId, body).last
  /\ nextId' = nextId + 1
  /\ ops' = ops + 1
  /\ UNCHANGED <<invoices, procs, args, result>>

\* pickupStr.replace(/\//g, '-')
replaceSlashes(s) == [i \in 1..Len(s) |-> IF s[i] = "/" THEN "-" ELSE s[i]]

\* `LOAD-${pickupStr.replace(/\//g, '-')}-${price}`
ImportLoadNumber(line) ==
  <<"L", "O", "A", "D", "-">> \o replaceSlashes(line.pickupDate) \o <<"-">> \o line.price

\* new Load({...}) of save-extracted: confirmed and invoiced, never cancelled.
ImportedLoad(carrierId, driverId, line) ==
  [NewLoad(LoadBody(driverId, carrierId, ImportLoadNumber(line),
                    <<line.pickup, line.delivery>>, FALSE, TRUE),
           InvoiceWeekTable[<<line.pickup, line.delivery>>])
   EXCEPT !.invoiced = TRUE]

ImportedIds(id, lines) == id..(id + Len(lines) - 1)

\* for (const line of lines) { ...; await load.save(); loadIds.push(load._id) }
SaveLines(L, id, data) ==
  [i \in DOMAIN L \cup ImportedIds(id, data.lines) |->
     IF i \in DOMAIN L THEN L[i]
     ELSE ImportedLoad(data.carrier_id, data.driver_id, data.lines[i - id + 1])]

ImportedInvoice(id, data) ==
  [invoice_number |-> BaseNumber(data.invoiceNumber),
   load_ids |-> ImportedIds(id, data.lines),
   carrier_id |-> data.carrier_id,
   invoice_week_id |-> 0]

Imported(status, ids) ==
  [op |-> "import", id |-> 0, status |-> status, drivers |-> {}, pairs |-> {},
   batch |-> ids, active |-> FALSE]

saveExtracted(L, I, id, data) ==
  IF data.carrier_id = NoCarrier
  THEN [loads |-> L, invoices |-> I, nextId |-> id, last |-> Imported(400, {})]
  ELSE IF BaseNumber(data.invoiceNumber) \in NumbersOf(I)
  THEN [loads |-> SaveLines(L, id, data), invoices |-> I,
        nextId |-> id + Len(data.lines),
        last |-> Imported(500, ImportedIds(id, data.lines))]
  ELSE [loads |-> SaveLines(L, id, data),
        invoices |-> Append(I, ImportedInvoice(id, data)),
        nextId |-> id + Len(data.lines),
        last |-> Imported(201, ImportedIds(id, data.lines))]

SaveExtracted(data) ==
  /\ loads' = saveExtracted(loads, invoices, nextId, data).loads
  /\ invoices' = saveExtracted(loads, invoices, nextId, data).invoices
  /\ nextId' = saveExtracted(loads, invoices, nextId, data).nextId
  /\ last' = saveExtracted(loads, invoices, nextId, data).last
  /\ ops' = ops + 1
  /\ UNCHANGED <<procs, args, result>>

CreateBodies ==
  {LoadBody(d, 1, A100, iv, FALSE, FALSE) :
     d \in {1, NoDriver}, iv \in {<<Tue00, Wed00>>, <<Mon00, Wed00>>}}

UploadBodies ==
  CreateBodies \cup {LoadBody(NoDriver, NoCarrier, A100, <<Mon00, Wed00>>, FALSE, FALSE)}

ImportLines ==
  {[pickupDate |-> <<"0", "3", "/", "1", "1", "/", "2", "0", "2", "4">>,
    pickup |-> Mon00, delivery |-> Wed00, price |-> <<"5">>],
   [pickupDate |-> <<"0", "3", "/", "1", "2", "/", "2", "0", "2", "4">>,
    pickup |-> Tue00, delivery |-> Wed00, price |-> <<"5">>]}

ImportData ==
  [carrier_id : {1, NoCarrier}, driver_id : {1, NoDriver}, invoiceNumber : {1},
   lines : {<<>>} \cup {<<x>> : x \in ImportLines}
           \cup {<<x, y>> : x \in ImportLines, y \in ImportLines}]

NextCreate ==
  \/ \E body \in CreateBodies :
       ops < MaxCreateOps /\ nextId <= MaxCreateLoads /\ PostLoad(body)
  \/ \E body \in UploadBodies :
       ops < MaxCreateOps /\ nextId <= MaxCreateLoads /\ UploadLoad(body)
  \/ \E data \in ImportData :
       /\ ops < MaxCreateOps
       /\ nextId + Len(data.lines) - 1 <= MaxCreateLoads
       /\ SaveExtracted(data)

SpecCreate == Init /\ [][NextCreate]_vars

NewLoads ==
  IF last.op \in {"create", "upload"} THEN {last.id}
  ELSE IF last.op = "import" THEN last.batch
  ELSE {}

\* The load n and the non-cancelled loads of its driver.
DriverMates(n) ==
  {a \in DOMAIN loads :
     \/ a = n
     \/ /\ ~loads[a].cancelled
        /\ loads[a].driver_id # NoDriver
        /\ loads[a].driver_id = loads[n].driver_id}

\* The load n and the non-cancelled loads of its carrier and number.
PairMates(n) ==
  {a \in DOMAIN loads :
     \/ a = n
     \/ /\ ~loads[a].cancelled
        /\ loads[a].carrier_id # NoCarrier
        /\ loads[a].carrier_id = loads[n].carrier_id
        /\ SameNumber(loads[a].load_number, loads[n].load_number)}

\* C15: when a request that created loads (manual create, upload, old-invoice
\* import) has completed, every new load and every non-cancelled load of its
\* driver hold exactly their driver conflicts, and every new load and every
\* non-cancelled load of its carrier and number hold exactly their duplicates.
C15_CreationRunsEngines ==
  \A n \in NewLoads :
    /\ \A a \in DriverMates(n) :
         /\ loads[a].driver_conflict_ids = ExpectedDriverConflicts(loads, a)
         /\ loads[a].driver_conflict = (ExpectedDriverConflicts(loads, a) # {})
    /\ \A a \in PairMates(n) :
         /\ loads[a].duplicate_conflict_ids = ExpectedDuplicateConflicts(loads, a)
         /\ loads[a].duplicate_conflict = (ExpectedDuplicateConflicts(loads, a) # {})

(***************************************************************************)
(* Loads that lack a driver, a carrier or a number: creates and edits that *)
(* leave the field out or blank it (the number is required by the schema,  *)
(* so the least it can be is white space), reassignments, cancels,         *)
(* uncancels and list refreshes, each request run to completion.           *)
(***************************************************************************)
Blank == <<Space>>

LackBodies ==
  {LoadBody(d, c, n, <<Mon00, Wed00>>, FALSE, FALSE) :
     d \in {1, NoDriver}, c \in {1, NoCarrier}, n \in {A100, Blank}}

LackPutBodies(doc) ==
  {LoadBody(d, c, n, <<doc.pickup_date, doc.delivery_date>>, doc.cancelled, doc.confirmed) :
     d \in {1, NoDriver}, c \in {1, NoCarrier}, n \in {A100, Blank}}

NextLack ==
  \/ \E body \in LackBodies :
       ops < MaxLackOps /\ nextId <= MaxLackLoads /\ PostLoad(body)
  \/ \E id \in DOMAIN loads : \E body \in LackPutBodies(loads[id]) :
       ops < MaxLackOps /\ PutLoad(id, body)
  \/ \E id \in DOMAIN loads, d \in {1, NoDriver} : ops < MaxLackOps /\ PatchDriver(id, d)
  \/ \E id \in DOMAIN loads : ops < MaxLackOps /\ PatchCarrier(id, 1)
  \/ \E id \in DOMAIN loads :
       ops < MaxLackOps /\ ~loads[id].cancelled /\ CancelLoad(id)
  \/ \E id \in DOMAIN loads :
       ops < MaxLackOps /\ loads[id].cancelled /\ UncancelLoad(id)
  \/ ops < MaxLackOps /\ loads # <<>> /\ GetLoads(ListAll)

SpecLack == Init /\ [][NextLack]_vars

LacksDriver(doc) == doc.driver_id = NoDriver

LacksPair(doc) == doc.carrier_id = NoCarrier \/ trim(doc.load_number) = <<>>

\* C16: between requests, a load without a driver has driver_conflict false and no
\* driver_conflict_ids, and a load without a carrier or with a number that is empty
\* once trimmed has duplicate_conflict false and no duplicate_conflict_ids.
C16_LackingFieldsNoFlags ==
  \A a \in DOMAIN loads :
    /\ LacksDriver(loads[a]) =>
         (~loads[a].driver_conflict /\ loads[a].driver_conflict_ids = {})
    /\ LacksPair(loads[a]) =>
         (~loads[a].duplicate_conflict /\ loads[a].duplicate_conflict_ids = {})

(***************************************************************************)
(* The duplicate recompute on its own: a store built by creates, cancels   *)
(* and deletes (a delete leaves the deleted id in the duplicate lists of   *)
(* its groupmates), then one call of the recompute with any carrier and    *)
(* any number.  args and result keep the call, the store it found and the  *)
(* store it left.                                                          *)
(***************************************************************************)
a100 == <<"a", "1", "0", "0">>

RecalculateNumbers == {A100, a100, a100sp, Blank, <<>>}

CallRecalculateDuplicate(carrierId, loadNumber) ==
  /\ loads' = recalculateDuplicateConflictsForCarrierLoadNumber(loads, carrierId, loadNumber)
  /\ args' = [fn |-> "recalculateDuplicateConflictsForCarrierLoadNumber",
              carrierId |-> carrierId, loadNumber |-> loadNumber, before |-> loads]
  /\ result' = [done |-> TRUE,
                loads |-> recalculateDuplicateConflictsForCarrierLoadNumber(
                            loads, carrierId, loadNumber)]
  /\ ops' = ops + 1
  /\ UNCHANGED <<nextId, invoices, last, procs>>

NextDup ==
  \/ \E body \in NumberBodies :
       ops < MaxDupOps /\ nextId <= MaxDupLoads /\ PostLoad(body)
  \/ \E id \in DOMAIN loads : ops < MaxDupOps /\ ~loads[id].cancelled /\ CancelLoad(id)
  \/ \E id \in DOMAIN loads : ops < MaxDupOps /\ DeleteLoad(id)
  \/ \E c \in Carriers \cup {NoCarrier}, n \in RecalculateNumbers :
       ops < MaxDupOps /\ loads # <<>> /\ CallRecalculateDuplicate(c, n)

SpecDup == Init /\ [][NextDup]_vars

Recalculated == args.fn = "recalculateDuplicateConflictsForCarrierLoadNumber"

\* The non-cancelled loads of the carrier whose stored number is the trimmed
\* number of the call, letter case aside.
Matched ==
  {i \in DOMAIN args.before :
     /\ ~args.before[i].cancelled
     /\ args.before[i].carrier_id = args.carrierId
     /\ toLowerCase(args.before[i].load_number) = toLowerCase(trim(args.loadNumber))}

C18_NullIffMissingOrInvalid ==
  result.done =>
    ((result.value = NullResult) <=>
       (args.pickup.tag # "date" \/ args.delivery.tag # "date"))


(***************************************************************************)
(* The invoice week of stored loads.  Request bodies carry their dates as  *)
(* the JavaScript values they arrive as, and may carry an invoice_week_id  *)
(* of their own; the schema's Date paths cast what the routes hand them.   *)
(***************************************************************************)
\* A string of digits: the milliseconds of t written out.  new Date() of it is an
\* Invalid Date (NewDate's last case); a Date path of the schema casts it to t.
JsDigits(t) == [tag |-> "digits", t |-> t]

\* JavaScript truthiness of a body value: null, undefined and '' are falsy.
truthy(v) == v.tag \notin {"null", "undefined", "empty"}

\* pickup_date / delivery_date: { type: Date, required: true }.  A date or its
\* milliseconds are cast; null, undefined and '' leave a required path empty and
\* other text does not cast: in both cases save() rejects.
castDate(v) ==
  IF v.tag \in {"date", "digits"} THEN [ok |-> TRUE, t |-> v.t] ELSE [ok |-> FALSE, t |-> 0]

\* invoice_monday / invoice_week_id: { required: false, default: null }.
NoMonday == 0
NoWeekId == 0

OwnWeekId == 20000103

RawBody(pickup, delivery, weekId) ==
  [pickup_date |-> pickup, delivery_date |-> delivery, invoice_week_id |-> weekId]

Stored(L, id, doc) == [i \in DOMAIN L \cup {id} |-> IF i = id THEN doc ELSE L[i]]

Answered(op, id, status) ==
  [op |-> op, id |-> id, status |-> status, drivers |-> {}, pairs |-> {}, batch |-> {},
   active |-> FALSE]

\* router.post('/'): the invoice fields are computed from the body's own values
\* when both are truthy and the computation succeeds; otherwise the body keeps
\* what it came with.
PostedFields(raw) ==
  IF /\ truthy(raw.pickup_date) /\ truthy(raw.delivery_date)
     /\ computeInvoiceWeekFields(raw.pickup_date, raw.delivery_date) # NullResult
  THEN computeInvoiceWeekFields(raw.pickup_date, raw.delivery_date)
  ELSE [tag |-> "fields", invoiceMonday |-> NoMonday, invoiceWeekId |-> raw.invoice_week_id]

RawLoad(raw, fields) ==
  NewLoad(LoadBody(1, 1, A100, <<castDate(raw.pickup_date).t, castDate(raw.delivery_date).t>>,
                   FALSE, TRUE),
          fields)

postRaw(L, id, raw) ==
  IF castDate(raw.pickup_date).ok /\ castDate(raw.delivery_date).ok
  THEN [loads |-> DuplicateConflictStep(
                    DriverConflictStep(
                      DateConflictStep(Stored(L, id, RawLoad(raw, PostedFields(raw))), id),
                      id), id),
        nextId |-> id + 1, last |-> Answered("create", id, 201)]
  ELSE [loads |-> L, nextId |-> id, last |-> Answered("create", id, 500)]

PostRaw(raw) ==
  /\ loads' = postRaw(loads, nextId, raw).loads
  /\ nextId' = postRaw(loads, nextId, raw).nextId
  /\ last' = postRaw(loads, nextId, raw).last
  /\ ops' = ops + 1
  /\ UNCHANGED <<invoices, procs, args, result>>

\* router.put('/:id'): Object.assign(load, req.body) casts the dates; the fields
\* are computed from the document's dates and overwrite what the body assigned.
putRaw(L, id, raw) ==
  IF castDate(raw.pickup_date).ok /\ castDate(raw.delivery_date).ok
  THEN [loads |-> putSaved(L, id, L[id],
                           AssignBody(L[id],
                                      LoadBody(L[id].driver_id, L[id].carrier_id,
                                               L[id].load_number,
                                               <<castDate(raw.pickup_date).t,
                                                 castDate(raw.delivery_date).t>>,
                                               L[id].cancelled, L[id].confirmed),
                                      computeInvoiceWeekFields(
                                        JsDate(castDate(raw.pickup_date).t),
                                        JsDate(castDate(raw.delivery_date).t)))).loads,
        last |-> Answered("put", id, 200)]
  ELSE [loads |-> L, last |-> Answered("put", id, 500)]

PutRaw(id, raw) ==
  /\ loads' = putRaw(loads, id, raw).loads
  /\ last' = putRaw(loads, id, raw).last
  /\ ops' = ops + 1
  /\ UNCHANGED <<nextId, invoices, procs, args, result>>

\* routes/upload.js: ocrData.pickup_date ? new Date(ocrData.pickup_date) : null,
\* 400 when a date is missing or computeInvoiceWeekFields gives null.
uploadRaw(L, id, ocr) ==
  IF /\ truthy(ocr.pickup_date) /\ truthy(ocr.delivery_date)
     /\ ~NewDate(ocr.pickup_date).nan /\ ~NewDate(ocr.delivery_date).nan
  THEN [loads |-> DuplicateConflictStep(
                    DriverConflictStep(
                      DateConflictStep(
                        Stored(L, id,
                               NewLoad(LoadBody(NoDriver, 1, A100,
                                                <<NewDate(ocr.pickup_date).t,
                                                  NewDate(ocr.delivery_date).t>>,
                                                FALSE, FALSE),
                                       computeInvoiceWeekFields(
                                         JsDate(NewDate(ocr.pickup_date).t),
                                         JsDate(NewDate(ocr.delivery_date).t)))), id),
                      id), id),
        nextId |-> id + 1, last |-> Answered("upload", id, 201)]
  ELSE [loads |-> L, nextId |-> id, last |-> Answered("upload", id, 400)]

UploadRaw(ocr) ==
  /\ loads' = uploadRaw(loads, nextId, ocr).loads
  /\ nextId' = uploadRaw(loads, nextId, ocr).nextId
  /\ last' = uploadRaw(loads, nextId, ocr).last
  /\ ops' = ops + 1
  /\ UNCHANGED <<invoices, procs, args, result>>

RawPickups == {JsDate(Mon00), JsDate(Tue00), JsDigits(Mon00), JsNull, JsGarbage}
RawDeliveries == {JsDate(Wed00), JsDigits(Wed00), JsUndefined}
RawBodies ==
  {RawBody(p, d, w) : p \in RawPickups, d \in RawDeliveries, w \in {NoWeekId, OwnWeekId}}
OcrData == {RawBody(p, d, NoWeekId) : p \in RawPickups, d \in RawDeliveries}
RawImports ==
  [carrier_id : {1}, driver_id : {NoDriver}, invoiceNumber : {1},
   lines : {<<x>> : x \in ImportLines}]

NextRaw ==
  \/ \E raw \in RawBodies : ops < MaxRawOps /\ nextId <= MaxRawLoads /\ PostRaw(raw)
  \/ \E id \in DOMAIN loads, raw \in RawBodies : ops < MaxRawOps /\ PutRaw(id, raw)
  \/ \E ocr \in OcrData : ops < MaxRawOps /\ nextId <= MaxRawLoads /\ UploadRaw(ocr)
  \/ \E data \in RawImports :
       ops < MaxRawOps /\ nextId <= MaxRawLoads /\ SaveExtracted(data)

SpecRaw == Init /\ [][NextRaw]_vars

\* The stored invoice fields of a document are those computed from its dates.
WeekAgrees(doc) ==
  /\ doc.invoice_monday =
       computeInvoiceWeekFields(JsDate(doc.pickup_date), JsDate(doc.delivery_date)).invoiceMonday
  /\ doc.invoice_week_id =
       computeInvoiceWeekFields(JsDate(doc.pickup_date), JsDate(doc.delivery_date)).invoiceWeekId

\* C19: after any sequence of completed creates, uploads, old-invoice imports and
\* PUTs, every stored load carries the invoice_monday and invoice_week_id that
\* computeInvoiceWeekFields gives for its current dates, whatever invoice_week_id
\* the request bodies carried.
C19_StoredWeekIsComputedWeek ==
  \A i \in DOMAIN loads : WeekAgrees(loads[i])


(***************************************************************************)
(* Generation over loads whose stored invoice fields are missing or wrong: *)
(* creates with bodies as received, then generation requests.  args keeps  *)
(* the store the request found.                                            *)
(***************************************************************************)
GenerateRecorded(req) ==
  /\ loads' = generate(loads, invoices, req).loads
  /\ invoices' = generate(loads, invoices, req).invoices
  /\ last' = generate(loads, invoices, req).last
  /\ args' = [fn |-> "generate", before |-> loads]
  /\ ops' = ops + 1
  /\ UNCHANGED <<nextId, procs, result>>

StaleRequests ==
  [byRule : {FALSE}, ruleCarrier : {NoCarrier}, load_ids : SUBSET (1..MaxStaleLoads),
   includeUnconfirmed : {FALSE}, base : {1, 2}]

NextStale ==
  \/ \E raw \in RawBodies : ops < MaxStaleOps /\ nextId <= MaxStaleLoads /\ PostRaw(raw)
  \/ \E req \in StaleRequests : ops < MaxStaleOps /\ loads # <<>> /\ GenerateRecorded(req)

SpecStale == Init /\ [][NextStale]_vars

\* The invoice week id computed from a document's dates.
WeekIdOf(doc) ==
  computeInvoiceWeekFields(JsDate(doc.pickup_date), JsDate(doc.delivery_date)).invoiceWeekId

\* C20: after a successful generation every candidate load stores the invoice
\* fields computed from its dates, whatever it stored before; nothing else of the
\* candidates' dates and no other load's invoice fields have changed; and every
\* invoice created is of the computed week of each of its loads, so that
\* candidates of different computed weeks are on different invoices even when
\* their stored weeks were equal.
C20_GenerationCorrectsStoredWeek ==
  (Succeeded /\ args.fn = "generate") =>
    /\ \A i \in last.eligible :
         /\ WeekAgrees(loads[i])
         /\ loads[i].pickup_date = args.before[i].pickup_date
         /\ loads[i].delivery_date = args.before[i].delivery_date
         /\ \E k \in DOMAIN last.created :
              /\ i \in last.created[k].load_ids
              /\ last.created[k].invoice_week_id = WeekIdOf(loads[i])
    /\ \A i \in DOMAIN loads \ last.eligible :
         /\ loads[i].invoice_monday = args.before[i].invoice_monday
         /\ loads[i].invoice_week_id = args.before[i].invoice_week_id
    /\ \A k \in DOMAIN last.created : \A i \in last.created[k].load_ids :
         WeekIdOf(loads[i]) = last.created[k].invoice_week_id

\* A generation has succeeded over two loads that both stored the week the
\* request body of their create carried, 2000-01-03: they now store the weeks of
\* their dates, 2024-03-18 and 2024-03-11, and lie on two invoices.
C20_Witness ==
  /\ Succeeded
  /\ args.fn = "generate"
  /\ \E i, j \in last.eligible :
       /\ args.before[i].invoice_week_id = OwnWeekId
       /\ args.before[j].invoice_week_id = OwnWeekId
       /\ loads[i].invoice_week_id = 20240318
       /\ loads[j].invoice_week_id = 20240311
       /\ Len(last.created) = 2


(***************************************************************************)
(* Generation over a collection that holds documents written before the    *)
(* schema required the dates: a candidate may lack its pickup or delivery  *)
(* date.  The handler is applied to every such collection of the bounds.   *)
(***************************************************************************)
LegacyDoc(carrierId, pickup, delivery, monday, weekId) ==
  [NewLoad(LoadBody(NoDriver, carrierId, A100, <<pickup, delivery>>, FALSE, TRUE),
           [invoiceMonday |-> monday, invoiceWeekId |-> weekId])
   EXCEPT !.confirmed = TRUE]

LegacyDocs ==
  {LegacyDoc(c, iv[1], iv[2], InvoiceWeekTable[iv].invoiceMonday,
             InvoiceWeekTable[iv].invoiceWeekId) :
     c \in {1, NoCarrier}, iv \in {<<Mon00, Tue15>>, <<Tue00, Wed00>>}}
  \cup {LegacyDoc(1, Tue00, Wed00, NoMonday, NoWeekId),
        LegacyDoc(1, NoDate, Wed00, NoMonday, NoWeekId),
        LegacyDoc(1, Tue00, NoDate, NoMonday, OwnWeekId)}

LegacyStores ==
  UNION {[1..n -> LegacyDocs] : n \in 1..MaxLegacyLoads}

InitLegacy ==
  /\ loads \in LegacyStores
  /\ nextId = Len(loads) + 1
  /\ invoices = <<>>
  /\ last = [op |-> "none"]
  /\ ops = 0
  /\ procs = <<>>
  /\ IdleCall

\* if (!l.pickup_date || !l.delivery_date) return res.status(400).json({ error })
LacksDate(doc) == doc.pickup_date = NoDate \/ doc.delivery_date = NoDate

\* The 400 of the dates loop: an error text and nothing else.
RefusedForDates(base, ids) ==
  [op |-> "generate", status |-> 400, base |-> base, eligible |-> ids, created |-> <<>>,
   error |-> "dates", named |-> {}]

\* The handler with its dates loop: the loop runs after the missing-carrier check
\* and before the bulk write.
generateLegacy(L, I, req) ==
  IF /\ SelectedLoads(L, req) # {}
     /\ \A i \in SelectedLoads(L, req) : L[i].carrier_id # NoCarrier
     /\ \E i \in SelectedLoads(L, req) : LacksDate(L[i])
  THEN [loads |-> L, invoices |-> I,
        last |-> RefusedForDates(req.base, SelectedLoads(L, req))]
  ELSE generate(L, I, req)

GenerateLegacy(req) ==
  /\ loads' = generateLegacy(loads, invoices, req).loads
  /\ invoices' = generateLegacy(loads, invoices, req).invoices
  /\ last' = generateLegacy(loads, invoices, req).last
  /\ args' = [fn |-> "generate", before |-> loads, invoices |-> invoices]
  /\ ops' = ops + 1
  /\ UNCHANGED <<nextId, procs, result>>

LegacyRequests ==
  [byRule : {FALSE}, ruleCarrier : {NoCarrier}, load_ids : SUBSET (1..MaxLegacyLoads),
   includeUnconfirmed : {FALSE}, base : {1, 2}]

NextLegacy ==
  \E req \in LegacyRequests : ops < MaxLegacyOps /\ GenerateLegacy(req)

SpecLegacy == InitLegacy /\ [][NextLegacy]_vars

InvalidCandidates == {i \in last.eligible : LacksDate(args.before[i])}

C22_DateConflictsSymmetric ==
  NothingDeleted =>
    \A a, b \in DOMAIN loads :
      (~loads[a].cancelled /\ ~loads[b].cancelled) =>
        (a \in loads[b].date_conflict_ids <=> b \in loads[a].date_conflict_ids)


(***************************************************************************)
(* The legacy date-conflict test on its own: every choice of four          *)
(* timestamps.                                                             *)
(***************************************************************************)
InitDatesConflict ==
  /\ IdleStore
  /\ args \in [fn : {"datesConflict"}, pickup1 : OverlapTimes, delivery1 : OverlapTimes,
               pickup2 : OverlapTimes, delivery2 : OverlapTimes]
  /\ result = NoCall

CallDatesConflict ==
  /\ ~result.done
  /\ result' = [done |-> TRUE,
                value |-> datesConflict(args.pickup1, args.delivery1,
                                        args.pickup2, args.delivery2)]
  /\ UNCHANGED <<args, storeVars>>

SpecDatesConflict == InitDatesConflict /\ [][CallDatesConflict]_vars

\* C23: datesConflict is true whenever the two loads have the same pickup date or
\* their date ranges cross; two loads picked up on the same date conflict even
\* when one of them is delivered on that date (each delivery is on or after its
\* pickup).
C23_SamePickupOrCrossing ==
  (/\ result.done
   /\ args.pickup1 <= args.delivery1
   /\ args.pickup2 <= args.delivery2) =>
    ((\/ UtcDay(args.pickup1) = UtcDay(args.pickup2)
      \/ /\ UtcDay(args.pickup1) < UtcDay(args.delivery2)
         /\ UtcDay(args.pickup2) < UtcDay(args.delivery1))
       => result.value)


(***************************************************************************)
(* Manual confirmation: creates and date edits of loads without a driver   *)
(* (the date check then looks at every load), and PATCH /:id/confirm.      *)
(***************************************************************************)
\* router.patch('/:id/confirm'): load.confirmed = true; save.
confirmLoad(L, id) ==
  [loads |-> [L EXCEPT ![id].confirmed = TRUE],
   last |-> Done("confirm", id, {}, {}, {}, FALSE)]

ConfirmLoad(id) ==
  /\ loads' = confirmLoad(loads, id).loads
  /\ last' = confirmLoad(loads, id).last
  /\ ops' = ops + 1
  /\ UNCHANGED <<nextId, invoices, procs, args, result>>

ConfirmBodies == {LoadBody(NoDriver, 1, A100, iv, FALSE, FALSE) : iv \in Intervals}

ConfirmPutBodies(doc) ==
  {LoadBody(doc.driver_id, doc.carrier_id, doc.load_number, iv, doc.cancelled, doc.confirmed) :
     iv \in Intervals}

NextConfirm ==
  \/ \E body \in ConfirmBodies :
       ops < MaxConfirmOps /\ nextId <= MaxConfirmLoads /\ PostLoad(body)
  \/ \E id \in DOMAIN loads : \E body \in ConfirmPutBodies(loads[id]) :
       ops < MaxConfirmOps /\ PutLoad(id, body)
  \/ \E id \in DOMAIN loads : ops < MaxConfirmOps /\ ConfirmLoad(id)

SpecConfirm == Init /\ [][NextConfirm]_vars

\* C24: when a create has found date conflicts, neither the created load nor any
\* load it conflicts with is confirmed: each needs PATCH /:id/confirm afterwards.
C24_ConflictsNeedConfirmation ==
  (last.op = "create" /\ loads[last.id].date_conflict_ids # {}) =>
    /\ ~loads[last.id].confirmed
    /\ \A b \in loads[last.id].date_conflict_ids : ~loads[b].confirmed


(***************************************************************************)
(* Generation step by step.  The handler awaits its selection find, its    *)
(* grouping find and bulk write, then for each group the PDF and the save  *)
(* of the invoice, and at last the updateMany that marks the loads; other  *)
(* requests run between the awaits.  Up to MaxGenerators generation        *)
(* requests are in flight; creates and cancels run to completion between   *)
(* their steps.                                                            *)
(***************************************************************************)
GenIdle == [pc |-> "idle"]

InitRace ==
  /\ loads = <<>>
  /\ nextId = 1
  /\ invoices = <<>>
  /\ last = [op |-> "none"]
  /\ ops = 0
  /\ procs = [p \in 1..MaxGenerators |-> GenIdle]
  /\ IdleCall

\* The selection find (by rule or by load_ids); 400 when it finds nothing.
GenSelect(p, req) ==
  /\ procs[p] = GenIdle
  /\ IF SelectedLoads(loads, req) = {}
     THEN /\ last' = Generated(400, req.base, {}, <<>>)
          /\ procs' = procs
     ELSE /\ procs' = [procs EXCEPT ![p] = [pc |-> "selected", base |-> req.base,
                                           ids |-> SelectedLoads(loads, req)]]
          /\ last' = last
  /\ ops' = ops + 1
  /\ UNCHANGED <<loads, nextId, invoices, args, result>>

\* Load.find({_id: {$in: loadIdsToUse}, cancelled: false, invoiced: false})
FoundForGrouping(L, ids) == {i \in ids \cap DOMAIN L : ~L[i].cancelled /\ ~L[i].invoiced}

PlannedInvoices(L, found, groupKeys, base) ==
  [i \in 1..Len(groupKeys) |-> InvoiceOfGroup(L, found, groupKeys, base, i)]

\* The grouping find, the missing-carrier check, the bulk write of the invoice
\* fields and the group keys.
GenGroup(p) ==
  /\ procs[p].pc = "selected"
  /\ IF \E i \in FoundForGrouping(loads, procs[p].ids) : loads[i].carrier_id = NoCarrier
     THEN /\ procs' = [procs EXCEPT ![p] = GenIdle]
          /\ last' = Generated(400, procs[p].base, procs[p].ids, <<>>)
          /\ loads' = loads
     ELSE /\ loads' = BackfillInvoiceFields(loads, FoundForGrouping(loads, procs[p].ids))
          /\ procs' = [procs EXCEPT ![p] =
                         [pc |-> "saving", base |-> procs[p].base,
                          ids |-> FoundForGrouping(loads, procs[p].ids),
                          planned |-> PlannedInvoices(
                                        loads, FoundForGrouping(loads, procs[p].ids),
                                        SortKeys({GroupKey(loads[i]) :
                                                    i \in FoundForGrouping(loads, procs[p].ids)}),
                                        procs[p].base),
                          saved |-> <<>>]]
          /\ last' = last
  /\ UNCHANGED <<nextId, invoices, ops, args, result>>

Saving(p) == procs[p].pc = "saving" /\ Len(procs[p].saved) < Len(procs[p].planned)

NextInvoice(p) == procs[p].planned[Len(procs[p].saved) + 1]

\* generateInvoicePDF throws when none of the group's loads is live any more, and
\* invoice.save() throws on a number that exists.
SaveThrows(L, I, inv) ==
  \/ \A i \in inv.load_ids : L[i].cancelled
  \/ inv.invoice_number \in NumbersOf(I)

GenAnswers500(p) ==
  /\ procs' = [procs EXCEPT ![p] = GenIdle]
  /\ last' = Generated(500, procs[p].base, procs[p].ids, procs[p].saved)
  /\ UNCHANGED <<loads, nextId, invoices, ops, args, result>>

\* One turn of the per-group loop: the PDF of the group, then the save of the
\* invoice with load_ids = the ids of the group as grouped.
GenSaveOne(p) ==
  /\ Saving(p)
  /\ IF SaveThrows(loads, invoices, NextInvoice(p))
     THEN GenAnswers500(p)
     ELSE /\ invoices' = Append(invoices, NextInvoice(p))
          /\ procs' = [procs EXCEPT ![p].saved = Append(@, NextInvoice(p))]
          /\ last' = [op |-> "save", invoice |-> NextInvoice(p)]
          /\ UNCHANGED <<loads, nextId, ops, args, result>>

\* The PDF renderer fails (the browser does not start, the template is missing).
GenPdfFails(p) ==
  /\ Saving(p)
  /\ GenAnswers500(p)

\* After the loop: Load.updateMany({_id: {$in: allInvoicedLoadIds}}, invoiced: true)
\* and the 201.
GenMark(p) ==
  /\ procs[p].pc = "saving"
  /\ Len(procs[p].saved) = Len(procs[p].planned)
  /\ loads' = MarkInvoiced(loads, UNION {procs[p].saved[k].load_ids :
                                           k \in DOMAIN procs[p].saved})
  /\ procs' = [procs EXCEPT ![p] = GenIdle]
  /\ last' = Generated(201, procs[p].base, procs[p].ids, procs[p].saved)
  /\ UNCHANGED <<nextId, invoices, ops, args, result>>

RaceBodies ==
  {LoadBody(NoDriver, 1, A100, iv, FALSE, TRUE) : iv \in {<<Mon00, Tue15>>, <<Tue00, Wed00>>}}

RaceRequests ==
  [byRule : {FALSE}, ruleCarrier : {NoCarrier}, load_ids : SUBSET (1..MaxRaceLoads),
   includeUnconfirmed : {FALSE}, base : {1, 2}]
  \cup [byRule : {TRUE}, ruleCarrier : {1}, load_ids : {{}},
        includeUnconfirmed : {FALSE}, base : {1, 2}]

NextRace ==
  \/ \E body \in RaceBodies : ops < MaxRaceOps /\ nextId <= MaxRaceLoads /\ PostLoad(body)
  \/ \E id \in DOMAIN loads : ops < MaxRaceOps /\ ~loads[id].cancelled /\ CancelLoad(id)
  \/ \E p \in 1..MaxGenerators, req \in RaceRequests :
       ops < MaxRaceOps /\ loads # <<>> /\ GenSelect(p, req)
  \/ \E p \in 1..MaxGenerators : GenGroup(p)
  \/ \E p \in 1..MaxGenerators : GenSaveOne(p)
  \/ \E p \in 1..MaxGenerators : GenPdfFails(p)
  \/ \E p \in 1..MaxGenerators : GenMark(p)

SpecRace == InitRace /\ [][NextRace]_vars

\* C25: at the moment an invoice is saved by a generation request, none of the
\* loads it lists is cancelled or already invoiced, whatever requests ran between
\* the selection and the save.
C25_InvoiceListsOnlyEligible ==
  last.op = "save" =>
    \A i \in last.invoice.load_ids : ~loads[i].cancelled /\ ~loads[i].invoiced


\* C29: a load is in the load_ids of at most one invoice created by generation,
\* also when generation requests over the same loads run at the same time.
C29_LoadOnAtMostOneInvoice ==
  \A i \in DOMAIN loads :
    Cardinality({k \in DOMAIN invoices : i \in invoices[k].load_ids}) <= 1

\* C30: when a generation request has answered, with 201 or with the 500 of an
\* error raised in its per-group loop, every load listed by an invoice the request
\* saved has invoiced = true.
C30_SavedInvoicesMarkTheirLoads ==
  (last.op = "generate" /\ last.status \in {201, 500}) =>
    \A k \in DOMAIN last.created : \A i \in last.created[k].load_ids : loads[i].invoiced


(***************************************************************************)
(* The scheduling of one refreshConflictsForLoads call: runBatched over    *)
(* the driver ids, then runBatched over the pairs.  A recompute is an item *)
(* <<kind, k>>; it is in flight from the batch.map(fn) that starts it      *)
(* until its promise settles (fn catches its own errors, so it always      *)
(* resolves).  args holds how many drivers and pairs the loads gave.       *)
(***************************************************************************)
\* runBatched(Array.from(driverIds), 10, ...), runBatched(pairs, 10, ...)
RefreshBatchSize == 10

Min(a, b) == IF a < b THEN a ELSE b

Scheduler(phase, started, running, settled) ==
  [phase |-> phase, started |-> started, running |-> running, settled |-> settled]

InitBatches ==
  /\ loads = <<>>
  /\ nextId = 1
  /\ invoices = <<>>
  /\ last = [op |-> "none"]
  /\ ops = 0
  /\ procs = Scheduler("clear", 0, {}, {})
  /\ args \in [fn : {"refreshConflictsForLoads"},
               drivers : {0, 1, RefreshBatchSize, MaxBatchDrivers},
               pairs : {0, 2, MaxBatchPairs}]
  /\ result = NoCall

ItemsOf(phase) == IF phase = "drivers" THEN args.drivers ELSE args.pairs

\* The two updateMany clears are done: the driver loop begins.
ClearsDone ==
  /\ procs.phase = "clear"
  /\ procs' = Scheduler("drivers", 0, {}, {})
  /\ UNCHANGED <<loads, nextId, invoices, last, ops, args, result>>

\* A clear throws: the outer catch logs it and the function returns.
ClearsThrow ==
  /\ procs.phase = "clear"
  /\ procs' = Scheduler("returned", 0, {}, {})
  /\ result' = [done |-> TRUE]
  /\ UNCHANGED <<loads, nextId, invoices, last, ops, args>>

\* Started without the await of the batch before.
PreviousBatchSettledNotAwaited(running) == TRUE

\* await Promise.all(batch.map(fn)) has resolved: nothing of the batch is in flight.
PreviousBatchSettled(running) == running = {}

\* items.slice(i, i + batchSize); batch.map(fn) starts every recompute of the slice.
StartBatch ==
  /\ procs.phase \in {"drivers", "pairs"}
  /\ procs.started < ItemsOf(procs.phase)
  /\ PreviousBatchSettled(procs.running)
  /\ procs' = [procs EXCEPT
                 !.started = Min(@ + RefreshBatchSize, ItemsOf(procs.phase)),
                 !.running = @ \cup
                   {<<procs.phase, k>> :
                      k \in (procs.started + 1)..
                            Min(procs.started + RefreshBatchSize, ItemsOf(procs.phase))}]
  /\ UNCHANGED <<loads, nextId, invoices, last, ops, args, result>>

\* One recompute settles, with its flags written or with its error caught.
Settle(item) ==
  /\ item \in procs.running
  /\ procs' = [procs EXCEPT !.running = @ \ {item}, !.settled = @ \cup {item}]
  /\ UNCHANGED <<loads, nextId, invoices, last, ops, args, result>>

\* The loop over the driver ids is over: the loop over the pairs begins.
DriversDone ==
  /\ procs.phase = "drivers"
  /\ procs.started = args.drivers
  /\ PreviousBatchSettled(procs.running)
  /\ procs' = [procs EXCEPT !.phase = "pairs", !.started = 0]
  /\ UNCHANGED <<loads, nextId, invoices, last, ops, args, result>>

RefreshReturned ==
  /\ procs.phase = "pairs"
  /\ procs.started = args.pairs
  /\ PreviousBatchSettled(procs.running)
  /\ procs' = [procs EXCEPT !.phase = "returned"]
  /\ result' = [done |-> TRUE]
  /\ UNCHANGED <<loads, nextId, invoices, last, ops, args>>

NextBatches ==
  \/ ClearsDone
  \/ ClearsThrow
  \/ StartBatch
  \/ \E item \in procs.running : Settle(item)
  \/ DriversDone
  \/ RefreshReturned

SpecBatches == InitBatches /\ [][NextBatches]_vars

\* The batch an item belongs to: items 1..10 are batch 0, 11..20 batch 1.
BatchOf(item) == (item[2] - 1) \div RefreshBatchSize

Started == procs.running \cup procs.settled

\* C26: at most 10 recomputes are in flight; those in flight are of one kind and
\* one batch, and every item of an earlier batch of that kind has settled; a pair
\* recompute has started only when every driver recompute has settled; and when
\* the function has returned nothing is in flight.
C26_BoundedBatches ==
  /\ Cardinality(procs.running) <= RefreshBatchSize
  /\ \A a, b \in procs.running : a[1] = b[1] /\ BatchOf(a) = BatchOf(b)
  /\ \A a \in procs.running : \A k \in 1..ItemsOf(a[1]) :
       BatchOf(<<a[1], k>>) < BatchOf(a) => <<a[1], k>> \in procs.settled
  /\ (\E a \in Started : a[1] = "pairs") =>
       \A k \in 1..args.drivers : <<"drivers", k>> \in procs.settled
  /\ procs.phase = "returned" =>
       /\ procs.running = {}
       /\ result.done

\* Eleven drivers and eleven pairs: the eleventh pair recompute is in flight alone,
\* after two driver batches and the first pair batch have settled.
C26_Witness ==
  /\ args.drivers = MaxBatchDrivers
  /\ args.pairs = MaxBatchPairs
  /\ procs.running = {<<"pairs", RefreshBatchSize + 1>>}
  /\ Cardinality(procs.settled) = MaxBatchDrivers + RefreshBatchSize


(***************************************************************************)
(* checkAndUpdateDriverConflictsForLoad on its own: a store built by       *)
(* creates, reassignments and cancels, then one call for any stored load   *)
(* with any driver or none and any dates or a missing one.                 *)
(***************************************************************************)
CheckIntervals == Intervals \cup {<<NoDate, Wed00>>, <<Mon00, NoDate>>}

CallCheckDriver(loadId, iv, driverId) ==
  /\ loads' = checkAndUpdateDriverConflictsForLoad(loads, loadId, iv[1], iv[2], driverId)
  /\ args' = [fn |-> "checkAndUpdateDriverConflictsForLoad", loadId |-> loadId,
              pickupDate |-> iv[1], deliveryDate |-> iv[2], driverId |-> driverId,
              before |-> loads]
  /\ result' = [done |-> TRUE,
                value |-> checkAndUpdateDriverConflictsForLoadReturns(
                            loads, loadId, iv[1], iv[2], driverId),
                loads |-> checkAndUpdateDriverConflictsForLoad(
                            loads, loadId, iv[1], iv[2], driverId)]
  /\ ops' = ops + 1
  /\ UNCHANGED <<nextId, invoices, last, procs>>

NextCheck ==
  \/ \E body \in MoveBodies :
       ops < MaxCheckOps /\ nextId <= MaxCheckLoads /\ PostLoad(body)
  \/ \E id \in DOMAIN loads : ops < MaxCheckOps /\ ~loads[id].cancelled /\ CancelLoad(id)
  \/ \E id \in DOMAIN loads, iv \in CheckIntervals, d \in Drivers \cup {NoDriver} :
       ops < MaxCheckOps /\ CallCheckDriver(id, iv, d)

SpecCheck == Init /\ [][NextCheck]_vars

Checked == args.fn = "checkAndUpdateDriverConflictsForLoad"

\* The other non-cancelled loads of the driver of the call whose dates overlap
\* the dates of the call, date-only and half-open.
OverlappingOfDriver ==
  {b \in DOMAIN args.before \ {args.loadId} :
     /\ ~args.before[b].cancelled
     /\ args.before[b].driver_id = args.driverId
     /\ UtcDay(args.pickupDate) < UtcDay(args.before[b].delivery_date)
     /\ UtcDay(args.before[b].pickup_date) < UtcDay(args.deliveryDate)}

\* C28: a call of checkAndUpdateDriverConflictsForLoad changes nothing but the
\* driver_conflict and driver_conflict_ids of its load; without a driver or with a
\* missing date it clears them and returns the empty list; otherwise it writes
\* and returns exactly the other non-cancelled loads of the driver that overlap
\* the dates given.
C28_CheckWritesOnlyItsLoad ==
  Checked =>
    /\ \A i \in DOMAIN args.before \ {args.loadId} : result.loads[i] = args.before[i]
    /\ DOMAIN result.loads = DOMAIN args.before
    /\ [result.loads[args.loadId] EXCEPT
          !.driver_conflict = args.before[args.loadId].driver_conflict,
          !.driver_conflict_ids = args.before[args.loadId].driver_conflict_ids]
         = args.before[args.loadId]
    /\ IF \/ args.driverId = NoDriver
          \/ args.pickupDate = NoDate
          \/ args.deliveryDate = NoDate
       THEN /\ result.value = {}
            /\ result.loads[args.loadId].driver_conflict_ids = {}
            /\ ~result.loads[args.loadId].driver_conflict
       ELSE /\ result.value = OverlappingOfDriver
            /\ result.loads[args.loadId].driver_conflict_ids = OverlappingOfDriver
            /\ result.loads[args.loadId].driver_conflict = (OverlappingOfDriver # {})

\* A call with a driver and both dates has found one overlapping load
\* of the driver given, next to a load of another driver over the same days,
\* and has written and returned the one id.
C28_Witness ==
  /\ Checked
  /\ args.driverId # NoDriver
  /\ Cardinality(result.value) = 1
  /\ result.loads[args.loadId].driver_conflict
  /\ \E c \in DOMAIN args.before \ {args.loadId} :
       /\ ~args.before[c].cancelled
       /\ args.before[c].driver_id \notin {args.driverId, NoDriver}
       /\ UtcDay(args.pickupDate) < UtcDay(args.before[c].delivery_date)
       /\ UtcDay(args.before[c].pickup_date) < UtcDay(args.deliveryDate)


(***************************************************************************)
(* One refreshConflictsForLoads call with its recomputes under way         *)
(* together: runBatched starts every recompute of a batch before it awaits *)
(* any, so the finds of the recomputes and the updateOne calls each of     *)
(* them issues reach the store in any order.  No other request runs during *)
(* the refresh.                                                            *)
(***************************************************************************)
OrderIdle == [pc |-> "idle"]

InitOrder ==
  /\ loads = <<>>
  /\ nextId = 1
  /\ invoices = <<>>
  /\ last = [op |-> "none"]
  /\ ops = 0
  /\ procs = OrderIdle
  /\ IdleCall

OrderBodies ==
  {LoadBody(d, c, n, <<Mon00, Wed00>>, FALSE, FALSE) :
     d \in Drivers, c \in Carriers, n \in LoadNumbers}

\* The loop over the seed documents and the two clearing updateMany calls; the
\* first batch of driver recomputes is started.
OrderBegin ==
  /\ procs.pc = "idle"
  /\ loads # <<>>
  /\ LET batch == ListQuery(loads, ListAll)
     IN  /\ Cardinality(RefreshDriverIds(loads, batch)) <= RefreshBatchSize
         /\ Cardinality(RefreshDuplicatePairs(loads, batch)) <= RefreshBatchSize
         /\ loads' = ClearDuplicateFlags(
                       ClearDriverFlags(loads, RefreshClearDriverIds(loads, batch)),
                       RefreshClearDuplicateIds(loads, batch))
         /\ procs' = [pc |-> "drivers", before |-> loads, batch |-> batch,
                      drivers |-> RefreshDriverIds(loads, batch),
                      pairs |-> RefreshDuplicatePairs(loads, batch),
                      writes |-> {}, written |-> <<>>]
  /\ UNCHANGED <<nextId, invoices, last, ops, args, result>>

\* The Load.find of recalculateDriverConflictsForDriver(d) is answered: the map is
\* built and one updateOne per entry is issued.
DriverFind(d) ==
  /\ procs.pc = "drivers"
  /\ d \in procs.drivers
  /\ LET cmap == DriverConflictMap(loads, d)
     IN  procs' = [procs EXCEPT
                     !.drivers = @ \ {d},
                     !.writes = @ \cup {[kind |-> "driver", key |-> d, id |-> i,
                                         ids |-> cmap[i]] : i \in DOMAIN cmap}]
  /\ UNCHANGED <<loads, nextId, invoices, last, ops, args, result>>

\* The Load.find of getDuplicateGroupLoads is answered: one updateOne per load
\* found is issued, each with the ids of the others.
PairFind(p) ==
  /\ procs.pc = "pairs"
  /\ p \in procs.pairs
  /\ LET group == getDuplicateGroupLoads(loads, p.carrierId, p.loadNumber)
     IN  procs' = [procs EXCEPT
                     !.pairs = @ \ {p},
                     !.writes = @ \cup {[kind |-> "pair", key |-> p, id |-> i,
                                         ids |-> group \ {i}] : i \in group}]
  /\ UNCHANGED <<loads, nextId, invoices, last, ops, args, result>>

\* One of the updateOne calls issued reaches the store.
OrderWrite(w) ==
  /\ procs.pc \in {"drivers", "pairs"}
  /\ w \in procs.writes
  /\ loads' = IF w.kind = "driver" THEN SetDriverFlags(loads, w.id, w.ids)
              ELSE SetDuplicateFlags(loads, w.id, w.ids)
  /\ procs' = [procs EXCEPT !.writes = @ \ {w},
                            !.written = Append(@, [kind |-> w.kind, key |-> w.key,
                                                   id |-> w.id])]
  /\ UNCHANGED <<nextId, invoices, last, ops, args, result>>

\* await runBatched(driverIds, ...) returns; the pair recomputes are started.
OrderDriversDone ==
  /\ procs.pc = "drivers"
  /\ procs.drivers = {}
  /\ procs.writes = {}
  /\ procs' = [procs EXCEPT !.pc = "pairs"]
  /\ UNCHANGED <<loads, nextId, invoices, last, ops, args, result>>

\* await runBatched(duplicatePairs, ...) returns, and the refresh with it.
OrderReturns ==
  /\ procs.pc = "pairs"
  /\ procs.pairs = {}
  /\ procs.writes = {}
  /\ procs' = [procs EXCEPT !.pc = "done"]
  /\ result' = [done |-> TRUE, loads |-> loads]
  /\ UNCHANGED <<loads, nextId, invoices, last, ops, args>>

NextOrder ==
  \/ \E body \in OrderBodies :
       procs.pc = "idle" /\ ops < MaxOrderOps /\ nextId <= MaxOrderLoads /\ PostLoad(body)
  \/ \E id \in DOMAIN loads : procs.pc = "idle" /\ ops < MaxOrderOps /\ DeleteLoad(id)
  \/ OrderBegin
  \/ \E d \in Drivers : DriverFind(d)
  \/ procs.pc = "drivers" /\ \E w \in procs.writes : OrderWrite(w)
  \/ OrderDriversDone
  \/ procs.pc = "pairs" /\ \E p \in procs.pairs : PairFind(p)
  \/ procs.pc = "pairs" /\ \E w \in procs.writes : OrderWrite(w)
  \/ OrderReturns

SpecOrder == InitOrder /\ [][NextOrder]_vars

Refreshing == procs.pc \in {"drivers", "pairs", "done"}

\* C27: whatever the order in which the finds and writes of the recomputes of one
\* refresh reach the store, no load is written by the recomputes of two drivers
\* or of two pairs, and when the refresh has returned the store is the one that
\* the recomputes run one after the other leave.
C27_RecomputeOrderIrrelevant ==
  /\ Refreshing =>
       \A i, j \in DOMAIN procs.written :
         (procs.written[i].kind = procs.written[j].kind
            /\ procs.written[i].id = procs.written[j].id)
           => procs.written[i].key = procs.written[j].key
  /\ procs.pc = "done" =>
       loads = refreshConflictsForLoads(procs.before, procs.batch)

\* A refresh has returned with a write of one driver's recompute between two
\* writes of the other's, and with writes of the recomputes of two pairs.
C27_Witness ==
  /\ procs.pc = "done"
  /\ \E i, j, k \in DOMAIN procs.written :
       /\ i < j /\ j < k
       /\ procs.written[i].kind = "driver"
       /\ procs.written[k].kind = "driver"
       /\ procs.written[j].kind = "driver"
       /\ procs.written[i].key = procs.written[k].key
       /\ procs.written[j].key # procs.written[i].key
  /\ \E i, j \in DOMAIN procs.written :
       /\ procs.written[i].kind = "pair"
       /\ procs.written[j].kind = "pair"
       /\ procs.written[i].key # procs.written[j].key

====
